---- MODULE Spec2Model ----
(***************************************************************************)
(* claude-code-router, Synapse integration: the configuration store and    *)
(* its validation and the test-model endpoint                              *)
(* (src/api/synapse-endpoints.ts), the health monitor with its sweep       *)
(* timer, the fallback loop and the context extraction                     *)
(* (src/middleware/health-monitoring.ts), the usage ledger with its        *)
(* queries and statistics (src/middleware/usage-tracking.ts), the router   *)
(* middleware (src/utils/router.ts) and the request orchestration          *)
(* (EnhancedRouter).                                                       *)
(*                                                                         *)
(* The server runs on one JavaScript event loop.  An action of this module *)
(* is one turn of that loop: the code that runs from the arrival of an     *)
(* HTTP request, or from the completion of a fetch, up to the next await   *)
(* of a fetch.  File I/O is synchronous (fs.readFileSync/writeFileSync).   *)
(***************************************************************************)
EXTENDS Integers, Sequences, FiniteSets, TLC

VARIABLES
    configFile,     \* the document at SynapseAPI.configPath, or NoFile
    posted,         \* the body of a POST /config request not handled yet, or Undef
    lastUpdate,     \* the response to the last POST /config request handled
    healthStatus,   \* HealthMonitor.healthStatus: provider -> HealthStatus
    fetches,        \* fetch calls awaiting completion: health probes and dispatches
    req,            \* one record per proxy request slot (routeRequest / routeWithFallback)
    hc,             \* the GET /health handler (handleHealthCheck)
    selIn,          \* argument of a direct selectHealthyProvider call: the candidates
    selOut,         \* whether that call has returned, and its return value
    usageFile,      \* the document at UsageStorage.storagePath, or NoFile
    appended,       \* the records written by the saves that succeeded, in order
    trackers,       \* direct callers of UsageTracker.trackRequest
    nextId,         \* how many record ids generateId has handed out
    saves,          \* direct callers of SynapseAPI.saveConfig
    loaded,         \* what the last direct loadConfig call returned
    written,        \* the configuration at the start and those the saves wrote
    now,            \* Date.now(), counted in sweep intervals
    lastCheck,      \* the lastCheck field of each HealthStatus in the health map
    checkInterval,  \* HealthMonitor.checkInterval: the handle of its timer, or NoTimer
    timers,         \* the interval timers the event loop holds
    queried,        \* the last direct call of query / getUsageStats and what it returned
    tested,         \* the response to the last POST /test-model request
    headers,        \* the x-synapse-* headers of the request whose context is extracted
    synapseContext, \* the context attached to that request, Undef before the hook ran
    reqBody,        \* the body of that request: the model asked for, the thinking flag
    legacyConfig,   \* the configuration the router middleware is given (config.Router)
    routed          \* whether the router middleware has handled that request

vars == <<configFile, posted, lastUpdate, healthStatus, fetches, req, hc, selIn, selOut,
          usageFile, appended, trackers, nextId, saves, loaded, written,
          now, lastCheck, checkInterval, timers, queried, tested, headers,
          synapseContext, reqBody, legacyConfig, routed>>

\* the variables of the usage ledger and of the direct configuration calls
usageVars == <<usageFile, appended, trackers, nextId>>
storeVars == <<saves, loaded, written>>

\* the clock and the sweep timer of the health monitor, the admin calls, the hook
sweepVars == <<now, lastCheck, checkInterval, timers>>
adminVars == <<queried, tested>>
hookVars == <<headers, synapseContext>>
routerVars == <<reqBody, legacyConfig, routed>>

(***************************************************************************)
(* JavaScript / JSON values.  A value carries its typeof tag; a property   *)
(* that is absent reads as Undef.                                          *)
(***************************************************************************)
Undef == [t |-> "undefined", v |-> <<>>]
Null == [t |-> "null", v |-> <<>>]
Str(s) == [t |-> "string", v |-> s]
Bool(b) == [t |-> "boolean", v |-> b]
Num(n) == [t |-> "number", v |-> n]
Arr(s) == [t |-> "array", v |-> s]
Obj(f) == [t |-> "object", v |-> f]

\* a string given by its characters, for the code that reads it character by
\* character; NaN, which is a number
Chars(cs) == [t |-> "chars", v |-> cs]
NaN == [t |-> "NaN", v |-> <<>>]

\* a Date, by its instant; the ISO text JSON.stringify writes for it (Date.toJSON);
\* the Date that does not denote an instant
Date(n) == [t |-> "date", v |-> n]
IsoString(n) == [t |-> "isoString", v |-> n]
InvalidDate == [t |-> "invalidDate", v |-> <<>>]

\* new Date(x) for a Date, for the text toJSON wrote, for anything else
NewDate(x) == IF x.t \in {"date", "isoString"} THEN Date(x.v) ELSE InvalidDate


\* ToBoolean(x): undefined, null, "", 0, NaN and false are falsy
Truthy(x) ==
    CASE x.t = "undefined" -> FALSE
      [] x.t = "null" -> FALSE
      [] x.t = "NaN" -> FALSE
      [] x.t = "chars" -> x.v # <<>>
      [] x.t = "string" -> x.v # ""
      [] x.t = "number" -> x.v # 0
      [] x.t = "boolean" -> x.v
      [] OTHER -> TRUE

\* x is undefined or null: reading a property of it throws a TypeError
Nullish(x) == x.t \in {"undefined", "null"}

\* x[k] for a value that is not nullish
Get(x, k) == IF x.t = "object" /\ k \in DOMAIN x.v THEN x.v[k] ELSE Undef

\* Object.keys(x)
Keys(x) == IF x.t = "object" THEN DOMAIN x.v ELSE {}

\* {...a, ...b}: every own key of b, an undefined value included, overrides a's
Spread(a, b) ==
    Obj([k \in Keys(a) \cup Keys(b) |-> IF k \in Keys(b) THEN b.v[k] ELSE a.v[k]])

\* JSON.stringify(x), the text written to a file: a key whose value is undefined
\* is not written, an undefined array element is written as null
RECURSIVE Written(_)
Written(x) ==
    CASE x.t = "object" ->
            Obj([k \in {j \in DOMAIN x.v : x.v[j] # Undef} |-> Written(x.v[k])])
      [] x.t = "array" ->
            Arr([i \in DOMAIN x.v |-> IF x.v[i] = Undef THEN Null ELSE Written(x.v[i])])
      [] x.t = "date" -> IsoString(x.v)
      [] OTHER -> x
JSONStringify(x) == [text |-> Written(x)]

\* a text that is not JSON: a truncated file, a file edited by hand
Garbage == [t |-> "garbage", v |-> <<>>]

\* a text of white space alone, the empty text included: data.trim() is ''
Blank == [t |-> "blank", v |-> <<>>]

\* the SyntaxError JSON.parse throws
SyntaxError == [t |-> "SyntaxError", v |-> <<>>]

\* JSON.parse(data): the value the text denotes, or the SyntaxError thrown
JSONParse(data) == IF data.text \in {Garbage, Blank} THEN SyntaxError ELSE data.text

RECURSIVE Flatten(_)
Flatten(ss) == IF ss = <<>> THEN <<>> ELSE Head(ss) \o Flatten(Tail(ss))

(***************************************************************************)
(* Configuration store: src/api/synapse-endpoints.ts                       *)
(***************************************************************************)
Sonnet == "claude-3-5-sonnet-20241022"
Haiku == "claude-3-5-haiku-20241022"
DeepseekChat == "deepseek-chat"
DeepseekReasoner == "deepseek-reasoner"
QwenMax == "qwen-max-2025-01-25"

\* the four keys updateConfig takes from the request body
TopKeys == {"models", "providers", "routing", "monitoring"}

\* requiredModels without its first key
RequiredModelsButDefault == <<"coder", "tool", "think", "fast", "longContext">>

\* requiredModels of validateConfig, in its order
RequiredModels == <<"default", "coder", "tool", "think", "fast", "longContext">>

\* booleanFields of validateConfig, in its order
BooleanFields == <<"usageTracking", "healthChecks", "costTracking">>

\* provider names in the order the documents of this model list them
\* (Object.entries follows the insertion order of the keys)
ProviderOrder == <<"deepseek", "openrouter", "anthropic">>
ProviderNames == {ProviderOrder[i] : i \in DOMAIN ProviderOrder}

\* Object.keys(providers) as a list
ProviderList(providers) ==
    SelectSeq(ProviderOrder, LAMBDA p : p \in Keys(providers))

\* no file at configPath
NoFile == [text |-> Undef]

\* getDefaultConfig(); OPENROUTER_API_KEY is taken to be unset
DefaultConfig ==
    Obj([models |-> Obj([default |-> Str(Sonnet), coder |-> Str(DeepseekChat),
                         tool |-> Str(QwenMax), think |-> Str(DeepseekReasoner),
                         fast |-> Str(Haiku), longContext |-> Str(Sonnet)]),
         providers |-> Obj([openrouter |->
                         Obj([apiKey |-> Str(""),
                              baseUrl |-> Str("https://openrouter.ai/api/v1"),
                              models |-> Arr(<<Str(Sonnet), Str(Haiku)>>)])]),
         routing |-> Obj([enabled |-> Bool(TRUE), fallbackEnabled |-> Bool(TRUE),
                          retryAttempts |-> Num(3)]),
         monitoring |-> Obj([usageTracking |-> Bool(TRUE), healthChecks |-> Bool(TRUE),
                             costTracking |-> Bool(TRUE)])])

\* a file at configPath that JSON.parse rejects
CorruptFile == [text |-> Garbage]

\* loadConfig without its catch block: the SyntaxError reaches the caller
loadConfigUncaught(file) == IF file = NoFile THEN DefaultConfig ELSE JSONParse(file)

\* loadConfig() on the file content `file`: the defaults when there is no file, and
\* from the catch block when JSON.parse throws
loadConfig(file) ==
    IF file = NoFile THEN DefaultConfig
    ELSE IF JSONParse(file) = SyntaxError THEN DefaultConfig
    ELSE JSONParse(file)

\* validateConfig throws a TypeError instead of returning: a provider entry that is
\* null or undefined is dereferenced (providerConfig.apiKey)
validateThrows(config) ==
    LET providers == Get(config, "providers")
    IN  /\ Truthy(providers)
        /\ \E name \in Keys(providers) : Nullish(providers.v[name])

\* the errors list of validateConfig(config), in the order the code pushes them
validateErrors(config) ==
    LET models == Get(config, "models")
        providers == Get(config, "providers")
        routing == Get(config, "routing")
        monitoring == Get(config, "monitoring")
        modelErrors ==
            IF Truthy(models)
            THEN Flatten([i \in DOMAIN RequiredModels |->
                    IF ~Truthy(Get(models, RequiredModels[i]))
                    THEN <<<<"Missing required model", RequiredModels[i]>>>>
                    ELSE <<>>])
            ELSE <<>>
        names == ProviderList(providers)
        providerErrors ==
            IF Truthy(providers)
            THEN Flatten([i \in DOMAIN names |->
                    LET pc == providers.v[names[i]]
                    IN  (IF ~Truthy(Get(pc, "apiKey"))
                         THEN <<<<"Missing API key for provider", names[i]>>>>
                         ELSE <<>>)
                        \o (IF ~Truthy(Get(pc, "baseUrl"))
                            THEN <<<<"Missing base URL for provider", names[i]>>>>
                            ELSE <<>>)
                        \o (IF ~Truthy(Get(pc, "models")) \/ Get(pc, "models").t # "array"
                            THEN <<<<"Invalid models array for provider", names[i]>>>>
                            ELSE <<>>)])
            ELSE <<>>
        retry == Get(routing, "retryAttempts")
        routingErrors ==
            IF Truthy(routing)
            THEN (IF Get(routing, "enabled").t # "boolean"
                  THEN <<<<"must be a boolean", "routing.enabled">>>> ELSE <<>>)
                 \o (IF Get(routing, "fallbackEnabled").t # "boolean"
                     THEN <<<<"must be a boolean", "routing.fallbackEnabled">>>> ELSE <<>>)
                 \o (IF retry.t # "number" \/ retry.v < 0
                     THEN <<<<"must be a non-negative number", "routing.retryAttempts">>>>
                     ELSE <<>>)
            ELSE <<>>
        monitoringErrors ==
            IF Truthy(monitoring)
            THEN Flatten([i \in DOMAIN BooleanFields |->
                    IF Get(monitoring, BooleanFields[i]).t # "boolean"
                    THEN <<<<"must be a boolean", BooleanFields[i]>>>>
                    ELSE <<>>])
            ELSE <<>>
    IN  modelErrors \o providerErrors \o routingErrors \o monitoringErrors

\* validateConfig(config), when it returns
validateConfig(config) ==
    [valid |-> validateErrors(config) = <<>>, errors |-> validateErrors(config)]

\* a write that leaves the file cut short, whatever the data
writeFileTruncated(data) == CorruptFile

\* fs.writeFileSync(path, data), when it succeeds: the content of the file after the
\* call.  The call is synchronous, so no other code of the process runs during it.
writeFileSync(data) == data

\* the file content after saveConfig(config) on content `file`
saveConfig(file, config) == writeFileSync(JSONStringify(Spread(loadConfig(file), config)))

\* loadConfig creating the file when there is none
fileAfterLoadCreates(file) == IF file = NoFile THEN JSONStringify(DefaultConfig) ELSE file

\* the file content after loadConfig(): existsSync and readFileSync only read
fileAfterLoad(file) == file

\* configUpdate of updateConfig: the four keys destructured from the body, a key
\* the body lacks being undefined
configUpdateOf(body) == Obj([k \in TopKeys |-> Get(body, k)])

\* statusOf without the early return on an invalid configuration
statusOfUnvalidated(body, fsOk) ==
    IF validateThrows(configUpdateOf(body)) THEN 500
    ELSE IF ~fsOk THEN 500
    ELSE 200

\* the status updateConfig answers `body` with; fsOk: writeFileSync succeeds
statusOf(body, fsOk) ==
    IF validateThrows(configUpdateOf(body)) THEN 500
    ELSE IF ~validateConfig(configUpdateOf(body)).valid THEN 400
    ELSE IF ~fsOk THEN 500
    ELSE 200

\* no response yet
NoUpdate == [status |-> 0, success |-> FALSE, details |-> <<>>]

\* a POST /config request arrives with `body`
postConfig(body) ==
    /\ posted = Undef
    /\ posted' = body
    /\ lastUpdate' = NoUpdate
    /\ UNCHANGED <<configFile, healthStatus, fetches, req, hc, selIn, selOut, usageVars, storeVars,
                   sweepVars, adminVars, hookVars, routerVars>>

\* updateConfig handles the posted body; fsOk: writeFileSync succeeds
updateConfig(fsOk) ==
    LET configUpdate == configUpdateOf(posted)
        status == statusOf(posted, fsOk)
    IN  /\ posted # Undef
        /\ posted' = Undef
        /\ configFile' = IF status = 200 THEN saveConfig(configFile, configUpdate)
                         ELSE configFile
        /\ lastUpdate' = [status |-> status, success |-> status = 200,
                          details |-> IF status = 400
                                      THEN validateConfig(configUpdate).errors
                                      ELSE <<>>]
        /\ UNCHANGED <<healthStatus, fetches, req, hc, selIn, selOut, usageVars, storeVars,
                   sweepVars, adminVars, hookVars, routerVars>>

(***************************************************************************)
(* Health monitor: src/middleware/health-monitoring.ts                     *)
(***************************************************************************)
\* largest latency (ms) a probe records in this model
MaxLatency == 1
Latencies == 0..MaxLatency

\* Infinity of `latency || Infinity`: above every recorded latency
Infinity == MaxLatency + 1000

\* how the fetch of a probe ends: a 2xx response, another response, or an
\* exception (network error, or the abort after 10 s)
ProbeOutcomes == {"ok", "notOk", "throws"}

\* response.status of the probe's fetch: a 2xx one when response.ok, 503 standing
\* for every other, and none (0 here) when the fetch threw
responseStatus(outcome) ==
    CASE outcome = "ok" -> 200 [] outcome = "notOk" -> 503 [] outcome = "throws" -> 0

\* the HealthStatus checkProviderHealth stores for an outcome
HealthRecord(outcome, latency) ==
    [healthy |-> outcome = "ok",
     latency |-> latency,
     status |-> responseStatus(outcome),
     error |-> IF outcome = "throws" THEN "fetch failed" ELSE "none"]

HealthRecords == {HealthRecord(o, l) : o \in ProbeOutcomes, l \in Latencies}

\* this.healthStatus.get(provider)?.healthy === true
IsHealthy(hs, p) == p \in DOMAIN hs /\ hs[p].healthy

\* healthyProviders of selectHealthyProvider: the filter keeps the list's order
healthyProviders(hs, providers) == SelectSeq(providers, LAMBDA p : IsHealthy(hs, p))

\* this.healthStatus.get(provider)?.latency || Infinity
latencyOrInfinity(hs, p) == IF hs[p].latency # 0 THEN hs[p].latency ELSE Infinity

\* the for loop of selectHealthyProvider from index i on
RECURSIVE selectLoop(_, _, _, _, _)
selectLoop(hs, healthy, i, bestProvider, bestLatency) ==
    IF i > Len(healthy) THEN bestProvider
    ELSE IF latencyOrInfinity(hs, healthy[i]) < bestLatency
         THEN selectLoop(hs, healthy, i + 1, healthy[i], latencyOrInfinity(hs, healthy[i]))
         ELSE selectLoop(hs, healthy, i + 1, bestProvider, bestLatency)

\* the null selectHealthyProvider returns
None == "null"

\* selectHealthyProvider falling back to the first candidate when none is healthy
selectFirstWhenNoneHealthy(hs, providers) ==
    LET healthy == healthyProviders(hs, providers)
    IN  IF Len(healthy) = 0
        THEN IF Len(providers) = 0 THEN None ELSE providers[1]
        ELSE selectLoop(hs, healthy, 1, healthy[1], latencyOrInfinity(hs, healthy[1]))

\* selectHealthyProvider(providers) on health map hs
selectHealthyProvider(hs, providers) ==
    LET healthy == healthyProviders(hs, providers)
    IN  IF Len(healthy) = 0 THEN None
        ELSE selectLoop(hs, healthy, 1, healthy[1], latencyOrInfinity(hs, healthy[1]))

(***************************************************************************)
(* Context routing: SynapseContextMiddleware.routeBasedOnContext           *)
(***************************************************************************)
\* a || b
OrElse(a, b) == IF Truthy(a) THEN a ELSE b

\* the agent-type table of routeBasedOnContext
modelMapOf(models) ==
    [coding |-> OrElse(Get(models, "coder"), Str(DeepseekChat)),
     analysis |-> OrElse(Get(models, "tool"), Str(QwenMax)),
     reasoning |-> OrElse(Get(models, "think"), Str(DeepseekReasoner)),
     general |-> OrElse(Get(models, "default"), Str(Sonnet))]

\* routeBasedOnContext testing the token estimate before the agent type
routeBasedOnContextTokensFirst(context, config) ==
    LET models == Get(config, "models")
        modelMap == modelMapOf(models)
    IN  IF Truthy(context.estimatedTokens) /\ context.estimatedTokens.v > 50000
        THEN OrElse(Get(models, "longContext"), Str(Sonnet))
        ELSE IF Truthy(context.estimatedTokens) /\ context.estimatedTokens.v < 1000
        THEN OrElse(Get(models, "fast"), Str(Haiku))
        ELSE IF Truthy(context.agentType)
        THEN IF context.agentType.v \in DOMAIN modelMap
             THEN modelMap[context.agentType.v]
             ELSE modelMap.general
        ELSE OrElse(Get(models, "default"), Str(Sonnet))

\* routeBasedOnContext without its test for a long context
routeBasedOnContextNoLongContext(context, config) ==
    LET models == Get(config, "models")
        modelMap == modelMapOf(models)
    IN  IF Truthy(context.agentType)
        THEN IF context.agentType.v \in DOMAIN modelMap
             THEN modelMap[context.agentType.v]
             ELSE modelMap.general
        ELSE IF Truthy(context.estimatedTokens) /\ context.estimatedTokens.v < 1000
             THEN OrElse(Get(models, "fast"), Str(Haiku))
        ELSE OrElse(Get(models, "default"), Str(Sonnet))

\* routeBasedOnContext with the long-context test at 60000 tokens
routeBasedOnContextAbove60000(context, config) ==
    LET models == Get(config, "models")
        modelMap == modelMapOf(models)
    IN  IF Truthy(context.agentType)
        THEN IF context.agentType.v \in DOMAIN modelMap
             THEN modelMap[context.agentType.v]
             ELSE modelMap.general
        ELSE IF Truthy(context.estimatedTokens) /\ context.estimatedTokens.v > 60000
             THEN OrElse(Get(models, "longContext"), Str(Sonnet))
        ELSE IF Truthy(context.estimatedTokens) /\ context.estimatedTokens.v < 1000
             THEN OrElse(Get(models, "fast"), Str(Haiku))
        ELSE OrElse(Get(models, "default"), Str(Sonnet))

\* routeBasedOnContext(context, config), config.models not nullish
routeBasedOnContext(context, config) ==
    LET models == Get(config, "models")
        modelMap == [coding |-> OrElse(Get(models, "coder"), Str(DeepseekChat)),
                     analysis |-> OrElse(Get(models, "tool"), Str(QwenMax)),
                     reasoning |-> OrElse(Get(models, "think"), Str(DeepseekReasoner)),
                     general |-> OrElse(Get(models, "default"), Str(Sonnet))]
    IN  IF Truthy(context.agentType)
        THEN IF context.agentType.v \in DOMAIN modelMap
             THEN modelMap[context.agentType.v]
             ELSE modelMap.general
        ELSE IF Truthy(context.estimatedTokens) /\ context.estimatedTokens.v > 50000
             THEN OrElse(Get(models, "longContext"), Str(Sonnet))
        ELSE IF Truthy(context.estimatedTokens) /\ context.estimatedTokens.v < 1000
             THEN OrElse(Get(models, "fast"), Str(Haiku))
        ELSE OrElse(Get(models, "default"), Str(Sonnet))

(***************************************************************************)
(* The router middleware: router and getUseModel of src/utils/router.ts    *)
(***************************************************************************)
\* the requested model names explored that hold a comma, and those that start with
\* "claude-3-5-haiku"; a model name is an atom here, so these tables stand for
\* String.prototype.includes and String.prototype.startsWith
ProviderAndModel == "openrouter,deepseek-chat"
NamesWithComma == {ProviderAndModel}
NamesOfHaiku == {Haiku}

\* req.body of a proxy request: the model asked for, the thinking flag, and for the
\* messages, system prompt and tools the number of cl100k tokens they encode to
BodyOf(model, thinking, tokenCount) ==
    [model |-> model, thinking |-> thinking, tokenCount |-> tokenCount]

\* getUseModel(req, tokenCount, config); req.body.model.includes of a model that is
\* no string throws
getUseModel(body, tokenCount, config) ==
    LET Router == Get(config, "Router")
    IN  IF body.model.t # "string" THEN Str("TypeError")
        ELSE IF body.model.v \in NamesWithComma THEN body.model
        ELSE IF tokenCount > 1000 * 60 /\ Truthy(Get(Router, "longContext"))
        THEN Get(Router, "longContext")
        ELSE IF body.model.v \in NamesOfHaiku /\ Truthy(Get(Router, "background"))
        THEN Get(Router, "background")
        ELSE IF Truthy(body.thinking) /\ Truthy(Get(Router, "think"))
        THEN Get(Router, "think")
        ELSE Get(Router, "default")

\* getUseModel throws
getUseModelThrows(body) == body.model.t # "string"

\* hasSynapseContext of router
hasSynapseContext(hdrs) ==
    Truthy(OrElse(OrElse(hdrs.projectId, hdrs.agentId), hdrs.agentType))

\* the router middleware handles the proxy request: it leaves the request to the
\* enhanced router when Synapse headers came with it and the hook attached a
\* context; otherwise it counts the tokens and writes the model of getUseModel into
\* the body, config.Router.default when that throws
router ==
    /\ reqBody # Undef
    /\ ~routed
    /\ routed' = TRUE
    /\ reqBody' =
           IF hasSynapseContext(headers) /\ synapseContext # Undef THEN reqBody
           ELSE IF getUseModelThrows(reqBody)
           THEN [reqBody EXCEPT !.model = Get(Get(legacyConfig, "Router"), "default")]
           ELSE [reqBody EXCEPT
                    !.model = getUseModel(reqBody, reqBody.tokenCount, legacyConfig)]
    /\ UNCHANGED <<configFile, posted, lastUpdate, healthStatus, fetches, req, hc,
                   selIn, selOut, usageVars, storeVars, sweepVars, adminVars, hookVars,
                   legacyConfig>>

(***************************************************************************)
(* Usage ledger: src/middleware/usage-tracking.ts                          *)
(***************************************************************************)
\* the number of records save keeps: 10000 in the source, scaled down here
RetentionCap == 2

\* the most ids generateId hands out in a run
MaxAppends == RetentionCap + 2

\* records.slice(0, n): the oldest n records
sliceFirst(records, n) == SubSeq(records, 1, n)

\* records.slice(-n): the last n records
sliceLast(records, n) == SubSeq(records, Len(records) - n + 1, Len(records))

\* save starting from an empty list whatever the file holds
readRecordsNone(file) == <<>>

\* a file of white space alone
EmptyFile == [text |-> Blank]

\* the records save and query read: [] when there is no file or its text is blank,
\* else JSON.parse of its text
readRecords(file) == IF file \in {NoFile, EmptyFile} THEN <<>> ELSE JSONParse(file).v

\* save(record) reaches its write and the write succeeds: no file system call
\* throws (fsOk), JSON.parse does not throw, and what it yields has a push method;
\* otherwise the catch block logs the error and save returns normally
saveSucceeds(file, fsOk) ==
    fsOk /\ (file \in {NoFile, EmptyFile} \/ JSONParse(file).t = "array")

\* the records save writes: those read and the new one, cut to the last cap records
kept(file, record) ==
    LET pushed == Append(readRecords(file), record)
    IN  IF Len(pushed) > RetentionCap THEN sliceLast(pushed, RetentionCap) ELSE pushed

\* a save whose failure leaves an emptied file behind
saveTruncating(file, record, fsOk) ==
    IF saveSucceeds(file, fsOk) THEN writeFileSync(JSONStringify(Arr(kept(file, record))))
    ELSE EmptyFile

\* the file content after UsageStorage.save(record) on content `file`
save(file, record, fsOk) ==
    IF saveSucceeds(file, fsOk) THEN writeFileSync(JSONStringify(Arr(kept(file, record))))
    ELSE file

\* the record trackRequest builds at instant `at`; generateId is a random UUID, here
\* the number of the call.  The cost and the input and output token counts are left
\* out of the record.
UsageRecordOf(id, at, context, response) ==
    LET usage == Get(response, "usage")
    IN  Obj([id |-> Num(id),
             timestamp |-> Date(at),
             projectId |-> context.projectId,
             agentId |-> context.agentId,
             agentType |-> context.agentType,
             model |-> Get(response, "model"),
             provider |-> Get(response, "provider"),
             tokens |-> Obj([total |-> IF Nullish(usage) THEN Num(0)
                                       ELSE OrElse(Get(usage, "total_tokens"), Num(0))]),
             latency |-> OrElse(Get(response, "latency"), Num(0)),
             success |-> Get(response, "success"),
             routingReason |-> OrElse(Get(response, "routingReason"), Str("default"))])

\* the callers of trackRequest whose calls may overlap
Trackers == {"t1", "t2"}

IdleTracker == [pc |-> "idle", record |-> Undef]

\* trackRequest(context, response) is called: it builds the record and calls save,
\* which runs to its end without an await; trackRequest then awaits save's promise
trackRequest(t, context, response, fsOk) ==
    LET record == UsageRecordOf(nextId + 1, now, context, response)
    IN  /\ trackers[t].pc = "idle"
        /\ nextId < MaxAppends
        /\ nextId' = nextId + 1
        /\ usageFile' = save(usageFile, record, fsOk)
        /\ appended' = IF saveSucceeds(usageFile, fsOk)
                       THEN Append(appended, Written(record)) ELSE appended
        /\ trackers' = [trackers EXCEPT ![t] = [pc |-> "awaitSave", record |-> record]]
        /\ UNCHANGED <<configFile, posted, lastUpdate, healthStatus, fetches, req, hc,
                       selIn, selOut, storeVars,
                   sweepVars, adminVars, hookVars, routerVars>>

\* trackRequest resumes after the await and returns the record
trackRequestReturns(t) ==
    /\ trackers[t].pc = "awaitSave"
    /\ trackers' = [trackers EXCEPT ![t] = IdleTracker]
    /\ UNCHANGED <<configFile, posted, lastUpdate, healthStatus, fetches, req, hc,
                   selIn, selOut, usageFile, appended, nextId, storeVars,
                   sweepVars, adminVars, hookVars, routerVars>>

(***************************************************************************)
(* Usage queries: UsageStorage.query and UsageTracker.getUsageStats        *)
(***************************************************************************)
\* UsageFilters: each of the three filters is a value or undefined
FiltersOf(projectId, agentId, timeRange) ==
    [projectId |-> projectId, agentId |-> agentId, timeRange |-> timeRange]
NoFilters == FiltersOf(Undef, Undef, Undef)

\* timestamp >= filters.timeRange.start && timestamp <= filters.timeRange.end, where
\* timestamp is new Date(r.timestamp); a comparison with an invalid Date is false
inTimeRange(r, timeRange) ==
    LET timestamp == NewDate(Get(r, "timestamp"))
    IN  /\ timestamp # InvalidDate
        /\ timestamp.v >= Get(timeRange, "start").v
        /\ timestamp.v <= Get(timeRange, "end").v

\* query(filters) on the file content: [] without a file, with a blank file and when
\* JSON.parse throws; else the records, cut down by each filter that is truthy
query(file, filters) ==
    LET records == readRecords(file)
        byProject == IF Truthy(filters.projectId)
                     THEN SelectSeq(records,
                                    LAMBDA r : Get(r, "projectId") = filters.projectId)
                     ELSE records
        byAgent == IF Truthy(filters.agentId)
                   THEN SelectSeq(byProject,
                                  LAMBDA r : Get(r, "agentId") = filters.agentId)
                   ELSE byProject
        byTime == IF Truthy(filters.timeRange)
                  THEN SelectSeq(byAgent, LAMBDA r : inTimeRange(r, filters.timeRange))
                  ELSE byAgent
    IN  IF file \in {NoFile, EmptyFile} \/ JSONParse(file) = SyntaxError THEN <<>>
        ELSE byTime

\* ns.reduce((sum, n) => sum + n, 0)
RECURSIVE reduceSum(_)
reduceSum(ns) == IF ns = <<>> THEN 0 ELSE Head(ns) + reduceSum(Tail(ns))

\* a quotient a / b of two counts, kept as the pair
Quotient(a, b) == [n |-> a, d |-> b]

\* String(record[field] || 'unknown')
groupKey(record, field) == OrElse(Get(record, field), Str("unknown")).v

\* groupBy(records, field): for each key, the number of records that carry it
groupBy(records, field) ==
    [key \in {groupKey(records[i], field) : i \in DOMAIN records} |->
        Len(SelectSeq(records, LAMBDA r : groupKey(r, field) = key))]

NoStats ==
    [totalRequests |-> 0, totalTokens |-> 0, averageLatency |-> Quotient(0, 1),
     successRate |-> Quotient(0, 1), modelBreakdown |-> <<>>, agentBreakdown |-> <<>>]

\* getUsageStats over every stored record, whatever the filters
getUsageStatsUnfiltered(file, filters) ==
    LET records == query(file, NoFilters)
    IN  IF Len(records) = 0 THEN NoStats
        ELSE [totalRequests |-> Len(records),
              totalTokens |-> reduceSum([i \in DOMAIN records |->
                                            Get(Get(records[i], "tokens"), "total").v]),
              averageLatency |-> Quotient(reduceSum([i \in DOMAIN records |->
                                                         Get(records[i], "latency").v]),
                                          Len(records)),
              successRate |-> Quotient(Len(SelectSeq(records,
                                           LAMBDA r : Truthy(Get(r, "success")))),
                                       Len(records)),
              modelBreakdown |-> groupBy(records, "model"),
              agentBreakdown |-> groupBy(records, "agentType")]

\* getUsageStats(filters) on the file content; the cost total is left out
getUsageStats(file, filters) ==
    LET records == query(file, filters)
    IN  IF Len(records) = 0 THEN NoStats
        ELSE [totalRequests |-> Len(records),
              totalTokens |-> reduceSum([i \in DOMAIN records |->
                                            Get(Get(records[i], "tokens"), "total").v]),
              averageLatency |-> Quotient(reduceSum([i \in DOMAIN records |->
                                                         Get(records[i], "latency").v]),
                                          Len(records)),
              successRate |-> Quotient(Len(SelectSeq(records,
                                           LAMBDA r : Truthy(Get(r, "success")))),
                                       Len(records)),
              modelBreakdown |-> groupBy(records, "model"),
              agentBreakdown |-> groupBy(records, "agentType")]

\* no query and no getUsageStats call made yet
NotQueried == [call |-> "none", filters |-> NoFilters, records |-> <<>>, stats |-> NoStats]

\* one call query(filters), which reads the file and returns
queryCalled(filters) ==
    /\ queried = NotQueried
    /\ queried' = [call |-> "query", filters |-> filters,
                   records |-> query(usageFile, filters), stats |-> NoStats]
    /\ UNCHANGED <<configFile, posted, lastUpdate, healthStatus, fetches, req, hc,
                   selIn, selOut, usageVars, storeVars, sweepVars, tested, hookVars, routerVars>>

\* one call getUsageStats(filters): query returns in the same turn, the await of
\* its promise resumes before any other handler runs
getUsageStatsCalled(filters) ==
    /\ queried = NotQueried
    /\ queried' = [call |-> "getUsageStats", filters |-> filters, records |-> <<>>,
                   stats |-> getUsageStats(usageFile, filters)]
    /\ UNCHANGED <<configFile, posted, lastUpdate, healthStatus, fetches, req, hc,
                   selIn, selOut, usageVars, storeVars, sweepVars, tested, hookVars, routerVars>>

(***************************************************************************)
(* Fallback loop: FallbackManager.routeWithFallback, driven by             *)
(* EnhancedRouter.routeRequest                                             *)
(***************************************************************************)
\* the proxy request under observation; the probes of GET /health stand for
\* everything else that writes the health map while it runs
Requests == {"r1"}

\* config.models.includes(model) of getProvidersForModel
includesModel(providerConfig, model) ==
    LET ms == Get(providerConfig, "models")
    IN  ms.t = "array" /\ \E i \in DOMAIN ms.v : ms.v[i] = model

\* getProvidersForModel without its filter: every configured provider
getProvidersForModelAll(model, providersConfig) == ProviderList(providersConfig)

\* getProvidersForModel(model, providersConfig)
getProvidersForModel(model, providersConfig) ==
    SelectSeq(ProviderList(providersConfig),
              LAMBDA p : includesModel(providersConfig.v[p], model))

\* maxRetries: config.routing.retryAttempts, the parameter's default when undefined
DefaultMaxRetries == 3

\* the default taken for every falsy retryAttempts: retryAttempts || 3
maxRetriesOfFalsy(routing) ==
    IF ~Truthy(Get(routing, "retryAttempts")) THEN DefaultMaxRetries
    ELSE Get(routing, "retryAttempts").v

maxRetriesOf(routing) ==
    IF Get(routing, "retryAttempts") = Undef THEN DefaultMaxRetries
    ELSE Get(routing, "retryAttempts").v

NoError == [msg |-> "none", provider |-> "none", attempt |-> 0]
NoResult == [status |-> 0, success |-> FALSE, provider |-> "none", model |-> Undef,
             routingReason |-> "none", error |-> NoError]

\* the context of a request that carries no x-synapse-* header
NoContext ==
    [projectId |-> Undef, agentId |-> Undef, agentType |-> Undef,
     estimatedTokens |-> Num(0)]

\* a request slot before routeRequest is called
IdleRequest ==
    [pc |-> "idle", context |-> NoContext, targetModel |-> Undef,
     availableProviders |-> <<>>, maxRetries |-> 0, attempt |-> 0,
     selectedProvider |-> None, trail |-> <<>>, result |-> NoResult]

\* the error makeRequest throws: `Request to ${provider} failed: ...`
RequestFailed(provider, attempt) ==
    [msg |-> "Request failed", provider |-> provider, attempt |-> attempt]

\* the catch block of routeRequest: status 500 with error.message
errorResponse(rec, error) ==
    [rec EXCEPT !.pc = "done",
                !.result = [status |-> 500, success |-> FALSE, provider |-> "unknown",
                            model |-> Str("unknown"), routingReason |-> "none",
                            error |-> error]]

\* routingReason tagged one attempt late
routingReasonLate(attempt) == IF attempt > 1 THEN "fallback" ELSE "primary"

\* routingReason: attempt > 0 ? 'fallback' : 'primary'
routingReasonOf(attempt) == IF attempt > 0 THEN "fallback" ELSE "primary"

\* the success return of routeWithFallback, answered by routeRequest with res.json
successResponse(rec) ==
    [rec EXCEPT !.pc = "done",
                !.result = [status |-> 200, success |-> TRUE,
                            provider |-> rec.selectedProvider,
                            model |-> rec.targetModel,
                            routingReason |-> routingReasonOf(rec.attempt),
                            error |-> NoError]]

\* the fetch a dispatch (makeRequest) or a probe (checkProviderHealth) awaits
Dispatch(r, attempt, provider) ==
    [kind |-> "dispatch", owner |-> r, n |-> attempt, provider |-> provider]
Probe(owner, n, provider) ==
    [kind |-> "probe", owner |-> owner, n |-> n, provider |-> provider]

\* the loop condition with <= for <
loopContinuesInclusive(rec, attempt) == attempt <= rec.maxRetries

\* the loop condition: attempt < maxRetries
loopContinues(rec, attempt) == attempt < rec.maxRetries

\* the catch block never rethrowing
lastAttemptNever(rec) == FALSE

\* the rethrow condition of the catch block: attempt === maxRetries - 1
lastAttempt(rec) == rec.attempt = rec.maxRetries - 1

\* the for loop of routeWithFallback entered at `attempt`, up to its next await:
\* the request record it leaves
loopFrom(rec, attempt) ==
    IF loopContinues(rec, attempt)
    THEN LET selected == selectHealthyProvider(healthStatus, rec.availableProviders)
         IN  IF selected = None
             THEN errorResponse(rec, [NoError EXCEPT
                                        !.msg = "No healthy providers available"])
             ELSE [rec EXCEPT !.pc = "awaitDispatch",
                              !.attempt = attempt,
                              !.selectedProvider = selected,
                              !.trail = Append(@,
                                  [provider |-> selected,
                                   healthy |-> {p \in ProviderNames :
                                       /\ IsHealthy(healthStatus, p)
                                       /\ \E i \in DOMAIN rec.availableProviders :
                                              rec.availableProviders[i] = p},
                                   outcome |-> "pending"])]
    ELSE errorResponse(rec, [NoError EXCEPT !.msg = "All fallback attempts failed"])

\* the loop iteration dispatching to every healthy candidate at once
loopFetchesFanOut(r, rec, attempt) ==
    IF loopFrom(rec, attempt).pc = "awaitDispatch"
    THEN {Dispatch(r, attempt, p) : p \in {q \in ProviderNames :
              /\ IsHealthy(healthStatus, q)
              /\ \E i \in DOMAIN rec.availableProviders : rec.availableProviders[i] = q}}
    ELSE {}

\* the fetches that loop iteration starts: the dispatch of makeRequest, if any
loopFetches(r, rec, attempt) ==
    IF loopFrom(rec, attempt).pc = "awaitDispatch"
    THEN {Dispatch(r, attempt, loopFrom(rec, attempt).selectedProvider)}
    ELSE {}

TypeError == [NoError EXCEPT !.msg = "TypeError"]

\* routeRequest up to the call of routeWithFallback: the record the loop starts from,
\* or the response when the request ends before the loop
routePrologue(context, config) ==
    LET routing == Get(config, "routing")
    IN  IF Nullish(routing)
        THEN errorResponse(IdleRequest, TypeError)
        ELSE IF ~Truthy(Get(routing, "enabled"))
        THEN \* fallbackToOriginalRouter
             [IdleRequest EXCEPT !.pc = "done",
                  !.result = [NoResult EXCEPT !.status = 200, !.success = TRUE,
                                  !.routingReason = "enhanced_routing_disabled"]]
        ELSE IF Nullish(Get(config, "models")) \/ Nullish(Get(config, "providers"))
        THEN errorResponse(IdleRequest, TypeError)
        ELSE [IdleRequest EXCEPT
                 !.pc = "loop",
                 !.targetModel = routeBasedOnContext(context, config),
                 !.availableProviders =
                     getProvidersForModel(routeBasedOnContext(context, config),
                                          Get(config, "providers")),
                 !.maxRetries = maxRetriesOf(routing)]

\* the response object routeRequest hands to trackRequest: the return value of
\* routeWithFallback, or errorResponse, which has no routingReason.  The provider's
\* reply is taken to carry no usage block, and times are not measured.
responseOf(result) ==
    Obj([model |-> result.model, provider |-> Str(result.provider),
         success |-> Bool(result.success),
         routingReason |-> IF result.routingReason = "none" THEN Undef
                           ELSE Str(result.routingReason),
         usage |-> Undef, latency |-> Undef])

\* the request took the fallbackToOriginalRouter path
skippedRouting(rec) == rec.result.routingReason = "enhanced_routing_disabled"

\* the end of routeRequest for a call that has left the loop: reading
\* config.monitoring.usageTracking of a configuration without a monitoring section
\* throws in the try block, which turns a success into the catch block's response
respond(rec) ==
    IF /\ rec.pc = "done" /\ rec.result.success /\ ~skippedRouting(rec)
       /\ Nullish(Get(loadConfig(configFile), "monitoring"))
    THEN errorResponse(rec, TypeError)
    ELSE rec

\* routeRequest calls trackRequest for the response of `rec`: in the try block after
\* routeWithFallback returned, or in the catch block (where a TypeError on a missing
\* monitoring section is caught and logged); never on the fallbackToOriginalRouter path
tracksUsage(rec) ==
    LET monitoring == Get(loadConfig(configFile), "monitoring")
    IN  /\ rec.pc = "done"
        /\ ~skippedRouting(rec)
        /\ ~Nullish(monitoring)
        /\ Truthy(Get(monitoring, "usageTracking"))

\* the usage ledger after the turn of routeRequest that leaves `rec`; the write of
\* the ledger is taken to succeed here, its failure is explored with the direct calls
routeTracks(rec) ==
    LET record == UsageRecordOf(nextId + 1, now, rec.context, responseOf(rec.result))
    IN  IF tracksUsage(rec)
        THEN /\ nextId' = nextId + 1
             /\ usageFile' = save(usageFile, record, TRUE)
             /\ appended' = IF saveSucceeds(usageFile, TRUE)
                            THEN Append(appended, Written(record)) ELSE appended
             /\ UNCHANGED trackers
        ELSE UNCHANGED usageVars

\* POST /v1/messages handled by routeRequest, up to its first await of a fetch
routeRequest(r, context) ==
    LET start == [routePrologue(context, loadConfig(configFile)) EXCEPT
                     !.context = context]
        after == respond(IF start.pc = "loop" THEN loopFrom(start, 0) ELSE start)
    IN  /\ req[r].pc = "idle"
        /\ req' = [req EXCEPT ![r] = after]
        /\ fetches' = fetches \cup (IF start.pc = "loop" THEN loopFetches(r, start, 0)
                                    ELSE {})
        /\ routeTracks(after)
        /\ UNCHANGED <<configFile, posted, lastUpdate, healthStatus, hc, selIn, selOut,
                       storeVars,
                   sweepVars, adminVars, hookVars, routerVars>>

\* the trail with its last entry's outcome recorded
settled(trail, outcome) == [trail EXCEPT ![Len(trail)].outcome = outcome]

\* the fetch of makeRequest resolves with a 2xx response: routeWithFallback returns
dispatchSucceeds(d) ==
    LET r == d.owner
        after == respond(successResponse([req[r] EXCEPT !.trail = settled(@, "ok")]))
    IN  /\ d \in fetches /\ d.kind = "dispatch"
        /\ req[r].pc = "awaitDispatch"
        /\ req' = [req EXCEPT ![r] = after]
        /\ fetches' = fetches \ {d}
        /\ routeTracks(after)
        /\ UNCHANGED <<configFile, posted, lastUpdate, healthStatus, hc, selIn, selOut,
                       storeVars,
                   sweepVars, adminVars, hookVars, routerVars>>

\* the fetch of makeRequest rejects or answers non-2xx: the catch block of
\* routeWithFallback starts the re-probe without awaiting it, rethrows on the last
\* attempt, and otherwise runs the next iteration up to its await
dispatchFails(d) ==
    LET r == d.owner
        rec == [req[r] EXCEPT !.trail = settled(@, "failed")]
        after == respond(IF lastAttempt(rec)
                         THEN errorResponse(rec, RequestFailed(d.provider, rec.attempt))
                         ELSE loopFrom(rec, rec.attempt + 1))
    IN  /\ d \in fetches /\ d.kind = "dispatch"
        /\ req[r].pc = "awaitDispatch"
        /\ req' = [req EXCEPT ![r] = after]
        /\ fetches' = ((fetches \ {d}) \cup {Probe(r, rec.attempt, d.provider)})
                      \cup (IF lastAttempt(rec) THEN {}
                            ELSE loopFetches(r, rec, rec.attempt + 1))
        /\ routeTracks(after)
        /\ UNCHANGED <<configFile, posted, lastUpdate, healthStatus, hc, selIn, selOut,
                       storeVars,
                   sweepVars, adminVars, hookVars, routerVars>>

\* getOverallHealth counting the records of the configured providers alone
getOverallHealthPruned(hs) ==
    LET configured == Keys(Get(loadConfig(configFile), "providers"))
        providers == SelectSeq(ProviderOrder, LAMBDA p : p \in DOMAIN hs \cap configured)
        healthyOnes == SelectSeq(providers, LAMBDA p : hs[p].healthy)
    IN  [healthy |-> Len(healthyOnes) > 0,
         score |-> IF Len(providers) > 0 THEN Quotient(Len(healthyOnes), Len(providers))
                   ELSE Quotient(0, 1)]

\* getOverallHealth(): healthy and score over the values of the health map; the
\* list of the records and lastUpdated are left out
getOverallHealth(hs) ==
    LET providers == SelectSeq(ProviderOrder, LAMBDA p : p \in DOMAIN hs)
        healthyOnes == SelectSeq(providers, LAMBDA p : hs[p].healthy)
    IN  [healthy |-> Len(healthyOnes) > 0,
         score |-> IF Len(providers) > 0 THEN Quotient(Len(healthyOnes), Len(providers))
                   ELSE Quotient(0, 1)]

\* the health of a response that carries none
NoView == [healthy |-> FALSE, score |-> Quotient(0, 1)]

\* no GET /health request answered yet
IdleHealthCheck == [pc |-> "idle", status |-> 0, since |-> 0, health |-> NoView]

\* GET /health handled by handleHealthCheck: when monitoring.healthChecks is set,
\* checkAllProviders starts one probe per configured provider and awaits them all;
\* otherwise, and with no provider to probe, the handler answers in the same turn;
\* Object.entries of a nullish providers throws, which the catch block answers
handleHealthCheck ==
    LET config == loadConfig(configFile)
        monitoring == Get(config, "monitoring")
        providers == Get(config, "providers")
        checks == Truthy(monitoring) /\ Truthy(Get(monitoring, "healthChecks"))
        started == IF checks THEN {Probe("hc", 0, p) : p \in Keys(providers)} ELSE {}
    IN  /\ hc.pc = "idle"
        /\ fetches' = fetches \cup started
        /\ hc' = [pc |-> IF started # {} THEN "awaitAll" ELSE "idle",
                  status |-> IF started # {} THEN 0
                             ELSE IF checks /\ Nullish(providers) THEN 500 ELSE 200,
                  since |-> now,
                  health |-> IF started # {} \/ (checks /\ Nullish(providers)) THEN NoView
                             ELSE getOverallHealth(healthStatus)]
        /\ UNCHANGED <<configFile, posted, lastUpdate, healthStatus, req, selIn, selOut,
                       usageVars, storeVars, sweepVars, adminVars, hookVars, routerVars>>

\* Promise.race for Promise.all: the first probe to end resolves the join
checkAllProvidersReturnsFirst(pending) == TRUE

\* Promise.all(promises) of checkAllProviders resolves: no probe of the call is
\* pending; a probe never rejects, its catch block turns every failure into a record
checkAllProvidersReturns(pending) ==
    ~\E q \in pending : q.kind = "probe" /\ q.owner = "hc"

\* the fetch of checkProviderHealth ends: the provider's record is overwritten; the
\* last probe of a GET /health resolves its Promise.all and the handler answers
checkProviderHealthEnds(pr, outcome, latency) ==
    /\ pr \in fetches /\ pr.kind = "probe"
    /\ healthStatus' = (pr.provider :> HealthRecord(outcome, latency)) @@ healthStatus
    /\ lastCheck' = (pr.provider :> now) @@ lastCheck
    /\ fetches' = fetches \ {pr}
    /\ hc' = IF pr.owner = "hc" /\ hc.pc = "awaitAll"
                /\ checkAllProvidersReturns(fetches \ {pr})
             THEN [hc EXCEPT !.pc = "idle", !.status = 200,
                             !.health = getOverallHealth(healthStatus')]
             ELSE hc
    /\ UNCHANGED <<configFile, posted, lastUpdate, req, selIn, selOut, usageVars,
                   storeVars, now, checkInterval, timers, adminVars, hookVars, routerVars>>

(***************************************************************************)
(* The clock and the periodic sweep of the health monitor                  *)
(***************************************************************************)
\* last instant of the clock in this model
MaxClock == 3

\* time passes; a probe is aborted after 10 s, a third of the sweep interval, but
\* may end in a later interval than the one it started in
tick ==
    /\ now < MaxClock
    /\ now' = now + 1
    /\ UNCHANGED <<configFile, posted, lastUpdate, healthStatus, fetches, req, hc,
                   selIn, selOut, usageVars, storeVars, lastCheck, checkInterval,
                   timers, adminVars, hookVars, routerVars>>

\* the constructor's autoCheckIntervalMs, 30000 ms by default: the unit of `now`
autoCheckIntervalMs == 1

\* checkInterval = null
NoTimer == 0

\* clearInterval(handle) without effect
clearIntervalKeeps(active, handle) == active

\* clearInterval(handle): the event loop drops the timer
clearInterval(active, handle) == active \ {handle}

\* startPeriodicHealthChecks(), called by the constructor alone: it clears the timer
\* it holds, if any, and keeps the handle of a new one
startPeriodicHealthChecks(handle, active) ==
    LET cleared == IF handle # NoTimer THEN clearInterval(active, handle) ELSE active
        fresh == handle + 1
    IN  [checkInterval |-> fresh, timers |-> cleared \cup {fresh}]

\* the staleness test with >= for >
staleInclusive(p) == now - lastCheck[p] >= autoCheckIntervalMs * 2

\* Date.now() - status.lastCheck.getTime() > this.autoCheckIntervalMs * 2
stale(p) == now - lastCheck[p] > autoCheckIntervalMs * 2

\* {...status, healthy: false, error: 'Health check timeout'}
markStale(status) == [status EXCEPT !.healthy = FALSE, !.error = "Health check timeout"]

\* a callback that marks every provider, stale or not
sweptAll == [p \in DOMAIN healthStatus |-> markStale(healthStatus[p])]

\* the health map after the callback of the sweep timer ran
swept ==
    [p \in DOMAIN healthStatus |->
        IF stale(p) THEN markStale(healthStatus[p]) ELSE healthStatus[p]]

\* the sweep timer fires and its callback runs
sweepTick ==
    /\ timers # {}
    /\ healthStatus' = swept
    /\ UNCHANGED <<configFile, posted, lastUpdate, fetches, req, hc, selIn, selOut,
                   usageVars, storeVars, now, lastCheck, checkInterval, timers,
                   adminVars, hookVars, routerVars>>

\* stopPeriodicHealthChecks()
stopPeriodicHealthChecks ==
    /\ checkInterval' = NoTimer
    /\ timers' = IF checkInterval # NoTimer THEN clearInterval(timers, checkInterval)
                 ELSE timers
    /\ UNCHANGED <<configFile, posted, lastUpdate, healthStatus, fetches, req, hc,
                   selIn, selOut, usageVars, storeVars, now, lastCheck, adminVars,
                   hookVars, routerVars>>

\* EnhancedRouter.cleanup()
cleanup == stopPeriodicHealthChecks

(***************************************************************************)
(* Inputs: request bodies, contexts and persisted configurations           *)
(***************************************************************************)
\* largest routing.retryAttempts of the configurations explored
MaxRetries == 2

ModelsFull ==
    Obj([default |-> Str(Sonnet), coder |-> Str(DeepseekChat), tool |-> Str(QwenMax),
         think |-> Str(DeepseekReasoner), fast |-> Str(Haiku),
         longContext |-> Str(Sonnet)])
ModelsAllSonnet == Obj([i \in {RequiredModels[j] : j \in DOMAIN RequiredModels} |-> Str(Sonnet)])
\* the models of the update in test-endpoints (testConfigManagement, test 2)
ModelsPartial ==
    Obj([default |-> Str(Sonnet), coder |-> Str(DeepseekChat),
         test |-> Str("test-model-updated")])
ModelsEmptyDefault == Obj([default |-> Str("")])
ModelsValues == {ModelsAllSonnet, ModelsPartial, ModelsEmptyDefault, Null}

ProviderEntry(apiKey, models) ==
    Obj([apiKey |-> apiKey, baseUrl |-> Str("https://example.test/v1"), models |-> models])
ProvidersTwo ==
    Obj([openrouter |-> ProviderEntry(Str("sk-or"), Arr(<<Str(Sonnet), Str(Haiku)>>)),
         anthropic |-> ProviderEntry(Str("sk-ant"), Arr(<<Str(Sonnet)>>))])
ProvidersBad ==
    Obj([openrouter |-> ProviderEntry(Str(""), Str(Sonnet))])
ProvidersNullEntry == Obj([openrouter |-> Null])
\* a provider whose models list is empty
ProvidersEmptyModels == Obj([openrouter |-> ProviderEntry(Str("sk-or"), Arr(<<>>))])
ProvidersValues == {ProvidersTwo, ProvidersBad, ProvidersNullEntry, ProvidersEmptyModels}

RoutingOf(enabled, retryAttempts) ==
    Obj([enabled |-> enabled, fallbackEnabled |-> Bool(TRUE),
         retryAttempts |-> retryAttempts])
\* the routing of the invalid update in test-endpoints (testConfigManagement, test 3)
RoutingNotBoolean == Obj([enabled |-> Str("not-a-boolean")])
RoutingValues ==
    {RoutingOf(Bool(FALSE), Num(0)), RoutingOf(Bool(TRUE), Num(-1)), RoutingNotBoolean}

MonitoringOf(usageTracking) ==
    Obj([usageTracking |-> usageTracking, healthChecks |-> Bool(TRUE),
         costTracking |-> Bool(TRUE)])
MonitoringValues == {MonitoringOf(Bool(FALSE)), MonitoringOf(Num(1))}

\* request bodies of POST /config: JSON objects with any subset of the four keys
Bodies ==
    {JSONParse(JSONStringify(Obj([models |-> m, providers |-> p, routing |-> r,
                                  monitoring |-> mo]))) :
        m \in ModelsValues \cup {Undef}, p \in ProvidersValues \cup {Undef},
        r \in RoutingValues \cup {Undef}, mo \in MonitoringValues \cup {Undef}}

\* the contexts extractContext yields for the requests explored
Contexts ==
    {NoContext,
     [NoContext EXCEPT !.projectId = Str("p1"), !.estimatedTokens = Num(500)],
     [NoContext EXCEPT !.agentType = Str("coding")]}

\* persisted configurations the routing runs start from: complete documents with
\* each retryAttempts up to MaxRetries, and one holding the routing section alone
RouteFiles ==
    {JSONStringify(Obj([models |-> ModelsFull, providers |-> ProvidersTwo,
                        routing |-> RoutingOf(Bool(TRUE), Num(n)),
                        monitoring |-> MonitoringOf(Bool(TRUE))])) : n \in 0..MaxRetries}
    \cup {JSONStringify(Obj([routing |-> RoutingOf(Bool(TRUE), Num(1))]))}
    \cup {JSONStringify(Obj([models |-> ModelsFull, providers |-> ProvidersTwo,
                             routing |-> RoutingOf(Bool(FALSE), Num(1)),
                             monitoring |-> MonitoringOf(Bool(TRUE))])),
          JSONStringify(Obj([models |-> ModelsFull, providers |-> ProvidersTwo,
                             routing |-> RoutingOf(Bool(TRUE), Num(1)),
                             monitoring |-> MonitoringOf(Bool(FALSE))]))}

\* the contexts and responses of the direct trackRequest calls
TrackContexts ==
    {[NoContext EXCEPT !.projectId = Str("p1"), !.agentType = Str("coding")],
     [NoContext EXCEPT !.projectId = Str("p2")]}
TrackResponses ==
    {Obj([model |-> Str(Sonnet), provider |-> Str("openrouter"), success |-> Bool(TRUE),
          routingReason |-> Str("primary"), latency |-> Num(1),
          usage |-> Obj([total_tokens |-> Num(10)])]),
     Obj([model |-> Str("unknown"), provider |-> Str("unknown"),
          success |-> Bool(FALSE)])}

(***************************************************************************)
(* Direct calls of SynapseAPI.loadConfig and SynapseAPI.saveConfig         *)
(***************************************************************************)
\* the callers of saveConfig whose calls may overlap
Savers == {"s1", "s2"}

\* the arguments of the direct saveConfig calls: valid partial configurations
SavePatches ==
    {Obj([routing |-> RoutingOf(Bool(FALSE), Num(0))]),
     Obj([monitoring |-> MonitoringOf(Bool(FALSE))])}

\* the files the direct calls start from: none, one JSON.parse rejects, a document
StoreFiles ==
    {NoFile, CorruptFile,
     JSONStringify(Obj([models |-> ModelsFull, providers |-> ProvidersTwo,
                        routing |-> RoutingOf(Bool(TRUE), Num(1)),
                        monitoring |-> MonitoringOf(Bool(TRUE))]))}

IdleSave == [pc |-> "idle", config |-> Undef, currentConfig |-> Undef]

\* no loadConfig call since the last write
NotLoaded == [fresh |-> 0, value |-> Undef]

\* saveConfig(config) is called: it calls loadConfig, which reads the file, and
\* awaits the promise loadConfig returns
saveConfigBegins(s, config) ==
    /\ saves[s].pc = "idle"
    /\ saves' = [saves EXCEPT ![s] = [pc |-> "awaitLoad", config |-> config,
                                      currentConfig |-> loadConfig(configFile)]]
    /\ UNCHANGED <<configFile, posted, lastUpdate, healthStatus, fetches, req, hc,
                   selIn, selOut, usageVars, loaded, written,
                   sweepVars, adminVars, hookVars, routerVars>>

\* saveConfig resumes after the await: it merges and writes, or throws 'Failed to
\* save configuration' when writeFileSync throws (fsOk false)
saveConfigEnds(s, fsOk) ==
    LET updatedConfig == Spread(saves[s].currentConfig, saves[s].config)
    IN  /\ saves[s].pc = "awaitLoad"
        /\ saves' = [saves EXCEPT ![s] = IdleSave]
        /\ configFile' = IF fsOk THEN writeFileSync(JSONStringify(updatedConfig))
                         ELSE configFile
        /\ written' = IF fsOk THEN written \cup {Written(updatedConfig)} ELSE written
        /\ loaded' = IF fsOk THEN NotLoaded ELSE loaded
        /\ UNCHANGED <<posted, lastUpdate, healthStatus, fetches, req, hc, selIn, selOut,
                       usageVars, sweepVars, adminVars, hookVars, routerVars>>

\* loadConfig() is called and returns; `fresh` counts the calls since the last write,
\* up to two
loadConfigCalled ==
    /\ loaded' = [fresh |-> IF loaded.fresh < 2 THEN loaded.fresh + 1 ELSE 2,
                  value |-> loadConfig(configFile)]
    /\ configFile' = fileAfterLoad(configFile)
    /\ UNCHANGED <<posted, lastUpdate, healthStatus, fetches, req, hc, selIn, selOut,
                   usageVars, saves, written, sweepVars, adminVars, hookVars, routerVars>>

(***************************************************************************)
(* POST /test-model: SynapseAPI.testModel                                  *)
(***************************************************************************)
\* the bodies of the test-model requests explored: none, and objects with each of
\* provider and model absent, empty, or given; "mistral" is configured nowhere
TestBodies ==
    {Undef} \cup
    {JSONParse(JSONStringify(Obj([provider |-> p, model |-> m]))) :
        p \in {Undef, Str(""), Str("openrouter"), Str("mistral")},
        m \in {Undef, Str(Sonnet)}}

\* no test-model request handled yet
NoTest == [pc |-> "idle", body |-> Undef, status |-> 0, success |-> FALSE]

\* the status testModel answers with before it calls testModelConnection, 0 when it
\* goes on to the call: destructuring a missing body and indexing a missing
\* providers section throw a TypeError, which the catch block answers with 500
statusBeforeFetch(body, config) ==
    IF Nullish(body) THEN 500
    ELSE IF ~Truthy(Get(body, "provider")) \/ ~Truthy(Get(body, "model")) THEN 400
    ELSE IF Nullish(Get(config, "providers")) THEN 500
    ELSE IF ~Truthy(Get(Get(config, "providers"), Get(body, "provider").v)) THEN 404
    ELSE 0

\* POST /test-model handled by testModel, up to the fetch of testModelConnection
testModel(body) ==
    LET status == statusBeforeFetch(body, loadConfig(configFile))
    IN  /\ tested.pc = "idle"
        /\ tested' = [pc |-> IF status = 0 THEN "awaitFetch" ELSE "idle", body |-> body,
                      status |-> status, success |-> FALSE]
        /\ UNCHANGED <<configFile, posted, lastUpdate, healthStatus, fetches, req, hc,
                       selIn, selOut, usageVars, storeVars, sweepVars, queried, hookVars, routerVars>>

\* the fetch of testModelConnection ends, with a 2xx response (ok) or otherwise:
\* either way testModelConnection returns a result and testModel answers 200
testModelConnectionEnds(ok) ==
    /\ tested.pc = "awaitFetch"
    /\ tested' = [tested EXCEPT !.pc = "idle", !.status = 200, !.success = ok]
    /\ UNCHANGED <<configFile, posted, lastUpdate, healthStatus, fetches, req, hc,
                   selIn, selOut, usageVars, storeVars, sweepVars, queried, hookVars, routerVars>>

(***************************************************************************)
(* Context extraction: SynapseContextMiddleware.extractContext and the     *)
(* preHandler hook of createServer                                         *)
(***************************************************************************)
DigitChars == {"0", "1", "2", "3", "4", "5", "6", "7", "8", "9"}

digitValue(c) ==
    CASE c = "0" -> 0 [] c = "1" -> 1 [] c = "2" -> 2 [] c = "3" -> 3 [] c = "4" -> 4
      [] c = "5" -> 5 [] c = "6" -> 6 [] c = "7" -> 7 [] c = "8" -> 8 [] c = "9" -> 9

\* the text without its leading white space
RECURSIVE trimStart(_)
trimStart(cs) == IF cs # <<>> /\ Head(cs) = " " THEN trimStart(Tail(cs)) ELSE cs

\* the longest prefix of decimal digits
RECURSIVE digitsPrefix(_)
digitsPrefix(cs) ==
    IF cs # <<>> /\ Head(cs) \in DigitChars
    THEN <<Head(cs)>> \o digitsPrefix(Tail(cs))
    ELSE <<>>

\* the number a text of decimal digits denotes
RECURSIVE numberOf(_)
numberOf(ds) ==
    IF ds = <<>> THEN 0
    ELSE 10 * numberOf(SubSeq(ds, 1, Len(ds) - 1)) + digitValue(ds[Len(ds)])

\* parseInt(string): white space is skipped, a sign is read, then the digits up to
\* the first character that is none; NaN when there is no digit
parseInt(string) ==
    LET trimmed == trimStart(string.v)
        signed == trimmed # <<>> /\ Head(trimmed) \in {"-", "+"}
        digits == digitsPrefix(IF signed THEN Tail(trimmed) ELSE trimmed)
    IN  IF digits = <<>> THEN NaN
        ELSE IF signed /\ Head(trimmed) = "-" THEN Num(0 - numberOf(digits))
        ELSE Num(numberOf(digits))

\* the x-synapse-* headers of a request; a header that was not sent is undefined
HeadersOf(projectId, agentType, tokenEstimate) ==
    [projectId |-> projectId, agentId |-> Undef, agentType |-> agentType,
     tokenEstimate |-> tokenEstimate]
NoHeaders == HeadersOf(Undef, Undef, Undef)

\* extractContext(req); the task type and the cost limits are left out
extractContext(hdrs) ==
    [projectId |-> hdrs.projectId, agentId |-> hdrs.agentId,
     agentType |-> hdrs.agentType,
     estimatedTokens |-> parseInt(OrElse(hdrs.tokenEstimate, Chars(<<"0">>)))]

\* the preHandler hook runs for the request: nothing in its try block throws
preHandler ==
    /\ synapseContext = Undef
    /\ synapseContext' = extractContext(headers)
    /\ UNCHANGED <<configFile, posted, lastUpdate, healthStatus, fetches, req, hc,
                   selIn, selOut, usageVars, storeVars, sweepVars, adminVars, headers, routerVars>>

(***************************************************************************)
(* Specifications                                                          *)
(***************************************************************************)
NoHealth == [p \in {} |-> HealthRecord("ok", 0)]

\* an empty usage ledger and no trackRequest call
InitUsage ==
    /\ usageFile = NoFile
    /\ appended = <<>>
    /\ trackers = [t \in Trackers |-> IdleTracker]
    /\ nextId = 0

\* the clock at its origin, every record of the health map stamped with it, and
\* the sweep timer the HealthMonitor constructor starts
InitSweep ==
    /\ now = 0
    /\ lastCheck = [p \in DOMAIN healthStatus |-> 0]
    /\ checkInterval = startPeriodicHealthChecks(NoTimer, {}).checkInterval
    /\ timers = startPeriodicHealthChecks(NoTimer, {}).timers

\* the state after the constructors of EnhancedRouter, before any request
InitServer ==
    /\ posted = Undef
    /\ lastUpdate = NoUpdate
    /\ healthStatus = NoHealth
    /\ fetches = {}
    /\ req = [r \in Requests |-> IdleRequest]
    /\ hc = IdleHealthCheck
    /\ selIn = <<>>
    /\ selOut = [returned |-> FALSE, value |-> None]
    /\ saves = [s \in Savers |-> IdleSave]
    /\ loaded = NotLoaded
    /\ InitSweep
    /\ queried = NotQueried
    /\ tested = NoTest
    /\ synapseContext = Undef

\* no request before the router middleware
InitRouter == reqBody = Undef /\ legacyConfig = Undef /\ routed = FALSE

\* that state with an empty usage ledger
InitCommon == InitServer /\ InitUsage /\ headers = NoHeaders /\ InitRouter

\* configuration management: any sequence of POST /config requests
InitConfig == InitCommon /\ configFile = NoFile /\ written = {DefaultConfig}
NextConfig ==
    \/ \E body \in Bodies : postConfig(body)
    \/ \E fsOk \in BOOLEAN : updateConfig(fsOk)
SpecConfig == InitConfig /\ [][NextConfig]_vars

\* the latencies the probes of the routing runs record: 0, which selection reads as
\* Infinity, and a positive one; between two candidates they give every order
RouteLatencies == {0, 1}

\* routing: proxy requests and health checks under one persisted configuration
InitRoute ==
    InitCommon /\ configFile \in RouteFiles /\ written = {loadConfig(configFile)}
NextRoute ==
    \/ \E r \in Requests, context \in Contexts : routeRequest(r, context)
    \/ \E d \in fetches : dispatchSucceeds(d)
    \/ \E d \in fetches : dispatchFails(d)
    \/ handleHealthCheck
    \/ \E pr \in fetches, o \in ProbeOutcomes, l \in RouteLatencies :
           checkProviderHealthEnds(pr, o, l)
SpecRoute == InitRoute /\ [][NextRoute]_vars

\* the configuration store called directly: overlapping saveConfig calls and loads
InitStore ==
    InitCommon /\ configFile \in StoreFiles /\ written = {loadConfig(configFile)}
NextStore ==
    \/ \E s \in Savers, config \in SavePatches : saveConfigBegins(s, config)
    \/ \E s \in Savers, fsOk \in BOOLEAN : saveConfigEnds(s, fsOk)
    \/ loadConfigCalled
SpecStore == InitStore /\ [][NextStore]_vars

\* the files the ledger runs start from: none, a blank one, one JSON.parse rejects
LedgerFiles == {NoFile, EmptyFile, CorruptFile}

\* the usage ledger called directly: overlapping trackRequest calls
InitLedger ==
    /\ InitServer
    /\ headers = NoHeaders /\ InitRouter
    /\ configFile = NoFile
    /\ written = {DefaultConfig}
    /\ usageFile \in LedgerFiles
    /\ appended = <<>>
    /\ trackers = [t \in Trackers |-> IdleTracker]
    /\ nextId = 0
NextLedger ==
    \/ \E t \in Trackers, context \in TrackContexts, response \in TrackResponses,
          fsOk \in BOOLEAN : trackRequest(t, context, response, fsOk)
    \/ \E t \in Trackers : trackRequestReturns(t)
SpecLedger == InitLedger /\ [][NextLedger]_vars

\* the health monitor alone: GET /health requests, the clock and the sweep timer,
\* under a configuration with health checks on and one with health checks off
MonitoringNoChecks ==
    Obj([usageTracking |-> Bool(TRUE), healthChecks |-> Bool(FALSE),
         costTracking |-> Bool(TRUE)])
HealthFiles ==
    {JSONStringify(Obj([models |-> ModelsFull, providers |-> ProvidersTwo,
                        routing |-> RoutingOf(Bool(TRUE), Num(1)),
                        monitoring |-> mo])) :
        mo \in {MonitoringOf(Bool(TRUE)), MonitoringNoChecks}}
InitHealth ==
    InitCommon /\ configFile \in HealthFiles /\ written = {loadConfig(configFile)}
NextHealth ==
    \/ handleHealthCheck
    \/ \E pr \in fetches, o \in ProbeOutcomes, l \in RouteLatencies :
           checkProviderHealthEnds(pr, o, l)
    \/ tick
    \/ sweepTick
    \/ stopPeriodicHealthChecks
    \/ cleanup
SpecHealth == InitHealth /\ [][NextHealth]_vars

\* the health view while the configuration changes: updates of the providers section
\* between health checks
ProvidersUpdates == {body \in Bodies : Keys(body) = {"providers"}}
InitOverall ==
    /\ InitCommon
    /\ configFile = JSONStringify(Obj([models |-> ModelsFull, providers |-> ProvidersTwo,
                                       routing |-> RoutingOf(Bool(TRUE), Num(1)),
                                       monitoring |-> MonitoringOf(Bool(TRUE))]))
    /\ written = {loadConfig(configFile)}
NextOverall ==
    \/ \E body \in ProvidersUpdates : postConfig(body)
    \/ \E fsOk \in BOOLEAN : updateConfig(fsOk)
    \/ handleHealthCheck
    \/ \E pr \in fetches, o \in ProbeOutcomes, l \in RouteLatencies :
           checkProviderHealthEnds(pr, o, l)
SpecOverall == InitOverall /\ [][NextOverall]_vars

\* the instants the records of the ledgers queried carry, and the time ranges asked
QueryInstants == {0, 1}
TimeRanges == {Obj([start |-> Date(n), end |-> Date(n)]) : n \in QueryInstants}

\* the contexts of those records: the two of the direct calls, and the one of a
\* request whose project header is empty
QueryContexts ==
    TrackContexts \cup
    {[NoContext EXCEPT !.projectId = Str(""), !.agentId = Str("a1")]}

\* the filters asked
QueryFilters ==
    {FiltersOf(p, a, tr) : p \in {Undef, Str(""), Str("p1"), Str("p2")},
                           a \in {Undef, Str("a1")},
                           tr \in TimeRanges \cup {Undef}}

\* the records of up to cap trackRequest calls, made at instants that do not decrease
QueryCalls ==
    {l \in UNION {[1..n -> QueryContexts \X TrackResponses \X QueryInstants] :
                      n \in 0..RetentionCap} :
        \A i, j \in DOMAIN l : i < j => l[i][3] <= l[j][3]}
recordsOf(l) == [i \in DOMAIN l |-> UsageRecordOf(i, l[i][3], l[i][1], l[i][2])]

\* the ledger after the saves of `records` in turn
RECURSIVE saveAll(_, _)
saveAll(file, records) ==
    IF records = <<>> THEN file
    ELSE saveAll(save(file, Head(records), TRUE), Tail(records))

\* usage queries: one call of query or getUsageStats on a ledger that saves wrote,
\* or on no file, a blank file or a file JSON.parse rejects
InitQuery ==
    /\ InitServer
    /\ headers = NoHeaders /\ InitRouter
    /\ configFile = NoFile
    /\ written = {DefaultConfig}
    /\ usageFile \in LedgerFiles \cup {saveAll(NoFile, recordsOf(l)) : l \in QueryCalls}
    /\ appended = readRecords(usageFile)
    /\ trackers = [t \in Trackers |-> IdleTracker]
    /\ nextId = Len(appended)
NextQuery ==
    \/ \E filters \in QueryFilters : queryCalled(filters)
    \/ \E filters \in QueryFilters : getUsageStatsCalled(filters)
SpecQuery == InitQuery /\ [][NextQuery]_vars

\* the updates posted between the test-model requests: those of the providers and
\* the routing sections
TestUpdates == {body \in Bodies : Keys(body) \subseteq {"providers", "routing"}}

\* configuration management with test-model requests in between
NextTestModel ==
    \/ \E body \in TestUpdates : postConfig(body)
    \/ \E fsOk \in BOOLEAN : updateConfig(fsOk)
    \/ \E body \in TestBodies : testModel(body)
    \/ \E ok \in BOOLEAN : testModelConnectionEnds(ok)
SpecTestModel == InitConfig /\ [][NextTestModel]_vars

\* the characters and the greatest length of the token-estimate headers explored
TokenChars == {"0", "1", "7", "-", "a", " "}
MaxHeaderLen == 2
HeaderValues ==
    {Undef} \cup
    {Chars(cs) : cs \in UNION {[1..n -> TokenChars] : n \in 0..MaxHeaderLen}}

\* context extraction alone: one request with any of the headers explored
InitContext ==
    /\ InitServer
    /\ InitUsage
    /\ configFile = NoFile
    /\ written = {DefaultConfig}
    /\ InitRouter
    /\ headers \in {HeadersOf(p, a, te) : p \in {Undef, Str("p1")},
                                           a \in {Undef, Str("coding")},
                                           te \in HeaderValues}
NextContext == preHandler
SpecContext == InitContext /\ [][NextContext]_vars

\* model selection: one proxy request with each of the headers and bodies below,
\* under each persisted configuration and each router configuration below
SlotNames == {"default", "coder", "tool", "think", "fast", "longContext"}

\* a models section that gives each slot of `slots` a model id of its own
ModelsWith(slots) == Obj([k \in slots |-> Str("model-" \o k)])

\* all six slots; without the agent-type slots; without the token slots; without
\* the default slot
ModelsSections ==
    {ModelsWith(SlotNames), ModelsWith({"default", "fast", "longContext"}),
     ModelsWith({"default", "coder", "tool", "think"}),
     ModelsWith(SlotNames \ {"default"})}

SelectFiles ==
    {JSONStringify(Obj([models |-> m, providers |-> ProvidersTwo,
                        routing |-> RoutingOf(Bool(TRUE), Num(1)),
                        monitoring |-> MonitoringOf(Bool(TRUE))])) : m \in ModelsSections}

\* token estimates on both sides of 1000, of 50000 and of 60000, and none
TokenEstimates ==
    {Undef, Chars(<<"5", "0", "0">>), Chars(<<"9", "9", "9">>),
     Chars(<<"1", "0", "0", "0">>), Chars(<<"5", "0", "0", "0", "0">>),
     Chars(<<"5", "0", "0", "0", "1">>), Chars(<<"6", "0", "0", "0", "0">>),
     Chars(<<"6", "0", "0", "0", "1">>)}

\* the four agent types, one that is none of them, and none
AgentTypes ==
    {Undef, Str("coding"), Str("analysis"), Str("reasoning"), Str("general"),
     Str("writer")}

SelectHeaders ==
    {HeadersOf(p, a, te) : p \in {Undef, Str("p1")}, a \in AgentTypes,
                           te \in TokenEstimates}

\* config.Router with every model set, and with the default alone
RouterConfigs ==
    {Obj([Router |-> Obj([default |-> Str("router-default"),
                          background |-> Str("router-background"),
                          think |-> Str("router-think"),
                          longContext |-> Str("router-longContext")])]),
     Obj([Router |-> Obj([default |-> Str("router-default")])])}

SelectBodies ==
    {BodyOf(m, t, n) : m \in {Undef, Str(DeepseekChat), Str(Haiku), Str(ProviderAndModel)},
                       t \in {Undef, Obj([type |-> Str("enabled")])},
                       n \in {1000 * 60, 1000 * 60 + 1}}

InitModel ==
    /\ InitServer
    /\ InitUsage
    /\ configFile \in SelectFiles
    /\ written = {loadConfig(configFile)}
    /\ headers \in SelectHeaders
    /\ reqBody \in SelectBodies
    /\ legacyConfig \in RouterConfigs
    /\ routed = FALSE
NextModel ==
    \/ preHandler
    \/ router
    \/ \E r \in Requests : routeRequest(r, extractContext(headers))
SpecModel == InitModel /\ [][NextModel]_vars

\* every list of distinct providers
RECURSIVE ListsOver(_)
ListsOver(S) ==
    {<<>>} \cup UNION {{<<p>> \o l : l \in ListsOver(S \ {p})} : p \in S}

\* every health map over the known providers
HealthMaps == UNION {[S -> HealthRecords] : S \in SUBSET ProviderNames}

\* one call selectHealthyProvider(selIn) on the health map
selectCall ==
    /\ ~selOut.returned
    /\ selOut' = [returned |-> TRUE, value |-> selectHealthyProvider(healthStatus, selIn)]
    /\ UNCHANGED <<configFile, posted, lastUpdate, healthStatus, fetches, req, hc, selIn, usageVars, storeVars,
                   sweepVars, adminVars, hookVars, routerVars>>

\* provider selection alone: any health map probes can leave, any candidate list
InitSelect ==
    /\ configFile = NoFile
    /\ posted = Undef
    /\ lastUpdate = NoUpdate
    /\ healthStatus \in HealthMaps
    /\ fetches = {}
    /\ req = [r \in Requests |-> IdleRequest]
    /\ hc = IdleHealthCheck
    /\ selIn \in ListsOver(ProviderNames)
    /\ selOut = [returned |-> FALSE, value |-> None]
    /\ InitUsage
    /\ saves = [s \in Savers |-> IdleSave]
    /\ loaded = NotLoaded
    /\ written = {DefaultConfig}
    /\ InitSweep
    /\ queried = NotQueried
    /\ tested = NoTest
    /\ headers = NoHeaders /\ InitRouter
    /\ synapseContext = Undef
NextSelect == selectCall
SpecSelect == InitSelect /\ [][NextSelect]_vars

(***************************************************************************)
(* Properties                                                              *)
(***************************************************************************)
\* the dispatches of request r whose fetch has not completed
inFlight(r) == {d \in fetches : d.kind = "dispatch" /\ d.owner = r}

\* routing.retryAttempts of the persisted configuration
configuredRetryAttempts == Get(Get(loadConfig(configFile), "routing"), "retryAttempts").v

\* every dispatch request r has issued so far has failed
allFailed(r) == \A i \in DOMAIN req[r].trail : req[r].trail[i].outcome = "failed"

C3_ReprobeCompletesFirst ==
    \A r \in Requests :
        (req[r].pc = "awaitDispatch" /\ req[r].attempt >= 1) =>
            ~\E pr \in fetches :
                pr.kind = "probe" /\ pr.owner = r /\ pr.n = req[r].attempt - 1

\* C4: a request with two or more attempts whose first dispatch failed on P, P being
\* recorded unhealthy since, while another candidate Q was healthy at every
\* selection, is healthy still and failed no dispatch, ends in a success served by
\* Q and tagged fallback.
C4_Failover ==
    \A r \in Requests :
        (/\ req[r].pc = "done"
         /\ req[r].maxRetries >= 2
         /\ req[r].trail # <<>>
         /\ req[r].trail[1].outcome = "failed"
         /\ ~IsHealthy(healthStatus, req[r].trail[1].provider)) =>
            \A Q \in ProviderNames \ {req[r].trail[1].provider} :
                (/\ IsHealthy(healthStatus, Q)
                 /\ \A i \in DOMAIN req[r].trail :
                        /\ Q \in req[r].trail[i].healthy
                        /\ req[r].trail[i].provider = Q => req[r].trail[i].outcome = "ok") =>
                    /\ req[r].result.success
                    /\ req[r].result.provider = Q
                    /\ req[r].result.routingReason = "fallback"

\* the loop of request r ran an iteration in this step: its first, or the one after
\* a failed dispatch that was not the last attempt
iterationRan(r) ==
    \/ req[r].pc = "idle" /\ req'[r].pc # "idle" /\ req'[r].maxRetries >= 1
    \/ /\ req[r].pc = "awaitDispatch" /\ req'[r] # req[r]
       /\ req'[r].trail[req[r].attempt + 1].outcome = "failed"
       /\ req[r].attempt < req[r].maxRetries - 1

\* C5: an iteration that finds no healthy candidate ends the call with the
\* no-healthy-provider error, issues no dispatch, and nothing runs after it.
C5_NoHealthyFailsAtOnce ==
    [][\A r \in Requests :
          /\ (iterationRan(r)
              /\ healthyProviders(healthStatus, req'[r].availableProviders) = <<>>) =>
                 /\ req'[r].pc = "done"
                 /\ req'[r].result.error.msg = "No healthy providers available"
                 /\ req'[r].result.status = 500
                 /\ Len(req'[r].trail) = Len(req[r].trail)
                 /\ \A d \in fetches' : ~(d.kind = "dispatch" /\ d.owner = r)
          /\ req[r].pc = "done" =>
                 /\ req'[r] = req[r]
                 /\ \A d \in fetches' \ fetches : d.owner # r]_vars

\* a request ended by the no-healthy-provider error after a failed dispatch
C5_Witness ==
    \E r \in Requests :
        /\ req[r].pc = "done"
        /\ req[r].result.error.msg = "No healthy providers available"
        /\ req[r].trail # <<>>
        /\ Len(req[r].trail) < req[r].maxRetries

\* C6: a request has at most one dispatch in flight, it is the one its last trail
\* entry records, and every earlier dispatch has failed.
C6_Sequential ==
    \A r \in Requests :
        /\ Cardinality(inFlight(r)) <= 1
        /\ \A i \in DOMAIN req[r].trail :
               i < Len(req[r].trail) => req[r].trail[i].outcome = "failed"
        /\ \A d \in inFlight(r) :
               /\ req[r].pc = "awaitDispatch"
               /\ d.n = Len(req[r].trail) - 1
               /\ req[r].trail[Len(req[r].trail)].outcome = "pending"

\* a second dispatch in flight after the first has failed
C6_Witness ==
    \E r \in Requests :
        /\ Len(req[r].trail) = 2
        /\ req[r].trail[1].outcome = "failed"
        /\ inFlight(r) # {}

\* C7: a successful route response is tagged primary when its first dispatch
\* produced it and fallback when a later one did.
C7_ReasonTag ==
    \A r \in Requests :
        (req[r].pc = "done" /\ req[r].result.success /\ req[r].trail # <<>>) =>
            /\ req[r].trail[Len(req[r].trail)].outcome = "ok"
            /\ req[r].result.routingReason = "primary" <=> Len(req[r].trail) = 1
            /\ req[r].result.routingReason = "fallback" <=> Len(req[r].trail) > 1

\* a success produced by the second dispatch
C7_Witness ==
    \E r \in Requests :
        /\ req[r].pc = "done" /\ req[r].result.success
        /\ Len(req[r].trail) = 2
        /\ req[r].result.routingReason = "fallback"

\* the candidates of the direct call that are recorded healthy
healthyCandidates == {selIn[i] : i \in {j \in DOMAIN selIn : IsHealthy(healthStatus, selIn[j])}}

\* C8: selectHealthyProvider returns a healthy candidate of minimal recorded
\* latency, a latency of 0 included, and returns null exactly when no candidate
\* is healthy.
C8_MinimalLatency ==
    selOut.returned =>
        /\ selOut.value = None <=> healthyCandidates = {}
        /\ healthyCandidates # {} =>
               /\ selOut.value \in healthyCandidates
               /\ \A q \in healthyCandidates :
                      healthStatus[selOut.value].latency <= healthStatus[q].latency

\* C9: after an update answered 200, every top-level key the body supplies holds
\* the body's value and every other top-level key holds the value it had before.
C9_ShallowMerge ==
    [][(posted # Undef /\ lastUpdate'.status = 200) =>
          \A k \in TopKeys :
              Get(loadConfig(configFile'), k) =
                  IF k \in Keys(posted) THEN posted.v[k]
                  ELSE Get(loadConfig(configFile), k)]_vars

\* the invalid update of test-endpoints (testConfigManagement, test 3)
InvalidTestBody == Obj([models |-> Null, routing |-> RoutingNotBoolean])

providerViolations(name, entry) ==
    {<<"Missing API key for provider", name>> :
        x \in {1} \ {y \in {1} : ~Nullish(entry) /\ Truthy(Get(entry, "apiKey"))}}
    \cup {<<"Missing base URL for provider", name>> :
        x \in {1} \ {y \in {1} : ~Nullish(entry) /\ Truthy(Get(entry, "baseUrl"))}}
    \cup {<<"Invalid models array for provider", name>> :
        x \in {1} \ {y \in {1} : ~Nullish(entry) /\ Get(entry, "models").t = "array"}}

\* the rules a configuration update breaks, over the sections it carries
violatedRules(config) ==
    LET models == Get(config, "models")
        providers == Get(config, "providers")
        routing == Get(config, "routing")
        monitoring == Get(config, "monitoring")
    IN  (IF Truthy(models)
         THEN {<<"Missing required model", RequiredModels[i]>> :
                  i \in {j \in DOMAIN RequiredModels :
                             ~Truthy(Get(models, RequiredModels[j]))}}
         ELSE {})
        \cup (IF Truthy(providers)
              THEN UNION {providerViolations(name, providers.v[name]) :
                             name \in Keys(providers)}
              ELSE {})
        \cup (IF Truthy(routing)
              THEN {<<"must be a boolean", "routing." \o f>> :
                       f \in {g \in {"enabled", "fallbackEnabled"} :
                                  Get(routing, g).t # "boolean"}}
                   \cup {<<"must be a non-negative number", "routing.retryAttempts">> :
                       x \in {1} \ {y \in {1} :
                                  /\ Get(routing, "retryAttempts").t = "number"
                                  /\ Get(routing, "retryAttempts").v >= 0}}
              ELSE {})
        \cup (IF Truthy(monitoring)
              THEN {<<"must be a boolean", BooleanFields[i]>> :
                       i \in {j \in DOMAIN BooleanFields :
                                  Get(monitoring, BooleanFields[j]).t # "boolean"}}
              ELSE {})

\* C11: validation is not fail-fast: an update is answered 400 exactly when it breaks
\* a rule, and the 400 response lists every broken rule of every section once.
C11_CompleteList ==
    [][(posted # Undef /\ posted' = Undef) =>
          LET rules == violatedRules(configUpdateOf(posted))
          IN  /\ rules # {} <=> lastUpdate'.status = 400
              /\ rules # {} =>
                     /\ {lastUpdate'.details[i] : i \in DOMAIN lastUpdate'.details} = rules
                     /\ Len(lastUpdate'.details) = Cardinality(rules)]_vars

\* the update {models: {default: ""}}
EmptyDefaultBody == Obj([models |-> ModelsEmptyDefault])

\* the missing-model errors of a response
missingModels(details) ==
    {details[i][2] : i \in {j \in DOMAIN details : details[j][1] = "Missing required model"}}

\* C12 as claimed: the update {models: {default: ""}} is rejected with five distinct
\* missing-key violations.
C12_FiveMissing ==
    [][(posted = EmptyDefaultBody /\ posted' = Undef) =>
          /\ lastUpdate'.status = 400
          /\ Len(lastUpdate'.details) = 5
          /\ Cardinality(missingModels(lastUpdate'.details)) = 5]_vars

\* C12 amended: the update {models: {default: ""}} is rejected with six distinct
\* missing-key violations: the five absent keys, and default, whose empty value
\* counts as missing.
C12_SixMissing ==
    [][(posted = EmptyDefaultBody /\ posted' = Undef) =>
          /\ lastUpdate'.status = 400
          /\ Len(lastUpdate'.details) = 6
          /\ missingModels(lastUpdate'.details) =
                 {"default", "coder", "tool", "think", "fast", "longContext"}
          /\ configFile' = configFile]_vars

\* a rejection listing the six model keys and nothing else
C12_Witness ==
    /\ lastUpdate.status = 400
    /\ Len(lastUpdate.details) = 6
    /\ Cardinality(missingModels(lastUpdate.details)) = 6

\* C13: an update that is accepted carries no provider entry with an empty apiKey,
\* an empty baseUrl, or a models value that is empty or not a list.
C13_NoEmptyProviderField ==
    [][(posted # Undef /\ posted' = Undef /\ lastUpdate'.status = 200) =>
          LET providers == Get(posted, "providers")
          IN  \A name \in Keys(providers) :
                  LET entry == providers.v[name]
                  IN  /\ ~Nullish(entry)
                      /\ Truthy(Get(entry, "apiKey"))
                      /\ Truthy(Get(entry, "baseUrl"))
                      /\ Get(entry, "models").t = "array"
                      /\ Get(entry, "models").v # <<>>]_vars

\* C14: an update whose models carry default, coder and an extra key only, with
\* valid routing and monitoring sections, is not rejected, and is persisted when
\* answered 200.
C14_PartialModelsAccepted ==
    [][(/\ posted # Undef /\ posted' = Undef
        /\ Get(posted, "models") = ModelsPartial
        /\ Get(posted, "providers") = Undef
        /\ Get(posted, "routing") = RoutingOf(Bool(FALSE), Num(0))
        /\ Get(posted, "monitoring") = MonitoringOf(Bool(FALSE))) =>
          /\ lastUpdate'.status # 400
          /\ lastUpdate'.status = 200 =>
                 Get(loadConfig(configFile'), "models") = ModelsPartial]_vars

\* C15: loadConfig never raises: every call returns a configuration object, and with
\* no file, or a file JSON.parse rejects, it returns the built-in defaults, which
\* hold the six model keys, a providers map, and the routing and monitoring sections.
C15_LoadNeverRaises ==
    loaded.fresh > 0 =>
        /\ loaded.value # SyntaxError
        /\ loaded.value.t = "object"
        /\ configFile \in {NoFile, CorruptFile} =>
               /\ loaded.value = DefaultConfig
               /\ \A i \in DOMAIN RequiredModels :
                      Truthy(Get(Get(loaded.value, "models"), RequiredModels[i]))
               /\ \A k \in {"providers", "routing", "monitoring"} :
                      Get(loaded.value, k).t = "object"

\* a load of a file that JSON.parse rejects has returned
C15_Witness == loaded.fresh > 0 /\ configFile = CorruptFile

\* C16: whatever saves overlap, a load returns the complete configuration the
\* store started with or the complete configuration one of the saves wrote.
C16_NoPartialRead == loaded.fresh > 0 => loaded.value \in written

\* a load between two overlapping saves, after the first has written
C16_Witness ==
    /\ loaded.fresh > 0
    /\ Cardinality(written) >= 2
    /\ loaded.value # DefaultConfig
    /\ \E s \in Savers : saves[s].pc = "awaitLoad" /\ saves[s].currentConfig # loaded.value

\* a direct loadConfig call returns in this step
loadReturns == loaded'.fresh > 0 /\ saves' = saves /\ written' = written

Min(a, b) == IF a < b THEN a ELSE b

\* C18: after n successful appends to an empty ledger, the ledger holds the last
\* min(n, cap) appended records, unmodified and in append order; so it never holds
\* more than cap records and the (cap+1)-th append evicts the oldest record alone.
C18_LastCapRecords ==
    LET n == Len(appended)
        k == Min(n, RetentionCap)
    IN  /\ readRecords(usageFile) = SubSeq(appended, n - k + 1, n)
        /\ Len(readRecords(usageFile)) <= RetentionCap

\* the ledger just after the append that first exceeds the cap
C18_Witness ==
    /\ Len(appended) = RetentionCap + 1
    /\ Len(readRecords(usageFile)) = RetentionCap
    /\ readRecords(usageFile)[1] = appended[2]

\* C19: while no more than cap appends were made and none failed, the ledger holds
\* the record of each trackRequest call exactly once, the calls still awaiting
\* their save included.
C19_NoLostAppend ==
    (nextId <= RetentionCap /\ Len(appended) = nextId) =>
        LET records == readRecords(usageFile)
        IN  /\ Len(records) = nextId
            /\ \A n \in 1..nextId :
                   Cardinality({i \in DOMAIN records : Get(records[i], "id") = Num(n)}) = 1
            /\ \A t \in Trackers :
                   trackers[t].pc = "awaitSave" =>
                       \E i \in DOMAIN records : records[i] = Written(trackers[t].record)

\* two trackRequest calls in progress at once, both records in the ledger
C19_Witness ==
    /\ \A t \in Trackers : trackers[t].pc = "awaitSave"
    /\ nextId = 2
    /\ Len(readRecords(usageFile)) = 2

\* monitoring.usageTracking of the persisted configuration is on
trackingEnabled ==
    LET monitoring == Get(loadConfig(configFile), "monitoring")
    IN  ~Nullish(monitoring) /\ Truthy(Get(monitoring, "usageTracking"))

\* C20: with usage tracking on, a proxy request that has completed, successfully or
\* not, has had trackRequest called for it exactly once, and its one record is the
\* ledger's content and carries the request's outcome.
C20_OneRecordPerRequest ==
    \A r \in Requests :
        (req[r].pc = "done" /\ trackingEnabled) =>
            /\ nextId = 1
            /\ Len(appended) = 1
            /\ readRecords(usageFile) = appended
            /\ Get(appended[1], "success") = Bool(req[r].result.success)

satisfies(r, filters) ==
    /\ filters.projectId # Undef => Get(r, "projectId") = filters.projectId
    /\ filters.agentId # Undef => Get(r, "agentId") = filters.agentId
    /\ filters.timeRange # Undef =>
           /\ Get(r, "timestamp").v >= Get(filters.timeRange, "start").v
           /\ Get(r, "timestamp").v <= Get(filters.timeRange, "end").v

\* C22: query(filters) returns, in stored order, exactly the stored records that
\* satisfy every filter supplied (all of them when none is), and leaves the ledger
\* as it was.
C22_QueryExact ==
    queried.call = "query" =>
        /\ queried.records =
               SelectSeq(readRecords(usageFile), LAMBDA r : satisfies(r, queried.filters))
        /\ readRecords(usageFile) = appended

\* the sum of the values of a function with a finite domain
RECURSIVE SumOver(_, _)
SumOver(f, S) ==
    IF S = {} THEN 0
    ELSE LET x == CHOOSE y \in S : TRUE IN f[x] + SumOver(f, S \ {x})

\* C23: the statistics getUsageStats(filters) returns are those of query(filters) on
\* the ledger at the call: totalRequests is the number of matching records,
\* totalTokens the sum of their token totals, successRate the fraction of them with
\* success = true, and the counts of each breakdown add up to totalRequests.
C23_StatsOfQuery ==
    queried.call = "getUsageStats" =>
        LET records == query(usageFile, queried.filters)
            stats == queried.stats
            successes == {i \in DOMAIN records : Get(records[i], "success") = Bool(TRUE)}
            totals == [i \in DOMAIN records |-> Get(Get(records[i], "tokens"), "total").v]
        IN  /\ stats.totalRequests = Len(records)
            /\ stats.totalTokens = SumOver(totals, DOMAIN totals)
            /\ stats.successRate.n * Len(records)
                   = Cardinality(successes) * stats.successRate.d
            /\ Len(records) = 0 => stats.successRate.n = 0
            /\ SumOver(stats.modelBreakdown, DOMAIN stats.modelBreakdown)
                   = stats.totalRequests
            /\ SumOver(stats.agentBreakdown, DOMAIN stats.agentBreakdown)
                   = stats.totalRequests

\* statistics over one project's record out of two stored, a successful one
C23_Witness ==
    /\ queried.call = "getUsageStats"
    /\ queried.filters.projectId = Str("p1")
    /\ Len(readRecords(usageFile)) = 2
    /\ queried.stats.totalRequests = 1
    /\ queried.stats.totalTokens = 10
    /\ queried.stats.successRate = Quotient(1, 1)

\* UNKNOWN, HEALTHY or UNHEALTHY: the stored health status of a provider
healthOf(hs, p) ==
    IF p \notin DOMAIN hs THEN "UNKNOWN"
    ELSE IF hs[p].healthy THEN "HEALTHY" ELSE "UNHEALTHY"

\* a probe of provider p ends in this step
probeEnded(p) == \E pr \in fetches \ fetches' : pr.kind = "probe" /\ pr.provider = p

configuredProviders == Keys(Get(loadConfig(configFile), "providers"))

\* C26: when checkAllProviders returns to the health handler, no probe it started is
\* still pending, every configured provider has a record, written no earlier than
\* the call, and the call has not failed, whatever the outcomes of the probes.
C26_JoinsAllProbes ==
    [][(hc.pc = "awaitAll" /\ hc'.pc = "idle") =>
          /\ ~\E pr \in fetches' : pr.kind = "probe" /\ pr.owner = "hc"
          /\ \A p \in configuredProviders :
                 /\ p \in DOMAIN healthStatus'
                 /\ lastCheck'[p] >= hc.since
          /\ hc'.status = 200]_vars

\* a health check answered after one probe threw and another succeeded
C26_Witness ==
    /\ hc.pc = "idle" /\ hc.status = 200
    /\ \E p, q \in DOMAIN healthStatus :
           healthStatus[p].error = "fetch failed" /\ healthStatus[q].healthy

\* C27: the health monitor never has more than one sweep timer, and that timer is
\* the one whose handle it holds; once stopPeriodicHealthChecks (or cleanup) has
\* run, no timer is left, none is ever started again, a further stop changes
\* nothing, and the health map changes only when a probe ends.
C27_TimerReleased ==
    /\ [](Cardinality(timers) <= 1 /\ timers \subseteq {checkInterval})
    /\ [][checkInterval = NoTimer =>
             /\ timers = {}
             /\ checkInterval' = NoTimer /\ timers' = {}
             /\ healthStatus' # healthStatus => fetches' # fetches]_vars

\* the monitor stopped while a healthy record has gone stale unmarked
C27_Witness ==
    /\ checkInterval = NoTimer
    /\ timers = {}
    /\ \E p \in DOMAIN healthStatus :
           healthStatus[p].healthy /\ now - lastCheck[p] > 2 * autoCheckIntervalMs

\* C28: every answer of GET /health is given at the return of a checkAllProviders
\* call the request made, and each configured provider then has a record written
\* during the request.
C28_ProbedBeforeAnswer ==
    [][(hc'.pc = "idle" /\ hc'.status # 0 /\ hc' # hc) =>
          \A p \in configuredProviders :
              /\ hc.pc = "awaitAll"
              /\ p \in DOMAIN healthStatus'
              /\ lastCheck'[p] >= hc'.since]_vars

\* C29: test-model answers 400 to a request whose body lacks provider or model, and
\* 404 to one that names a provider the persisted configuration does not hold.
C29_TestModelStatus ==
    [][(tested.pc = "idle" /\ tested' # tested) =>
          LET body == tested'.body
              missing == \/ Nullish(body)
                         \/ ~Truthy(Get(body, "provider"))
                         \/ ~Truthy(Get(body, "model"))
          IN  /\ missing => tested'.status = 400
              /\ (~missing /\ Get(body, "provider").v \notin configuredProviders)
                     => tested'.status = 404]_vars

\* C30: the context extracted from a request has estimatedTokens an integer >= 0,
\* which is 0 when the token-estimate header is absent or holds no integer.
C30_TokensNatural ==
    synapseContext # Undef =>
        LET tokens == synapseContext.estimatedTokens
        IN  /\ tokens.t = "number"
            /\ tokens.v >= 0
            /\ headers.tokenEstimate = Undef => tokens = Num(0)

(***************************************************************************)
(* Model selection                                                         *)
(***************************************************************************)
\* the models section of the persisted configuration
configuredModels == Get(loadConfig(configFile), "models")

\* request r has been through routeBasedOnContext
selectedFor(r) == req[r].pc # "idle" /\ req[r].targetModel # Undef

\* the step is routeRequest choosing the target model of request r
selects(r) == req[r].pc = "idle" /\ req'[r].pc # "idle" /\ req'[r].targetModel # Undef

\* the step is the router middleware writing the model of getUseModel into the body
routerSelects ==
    /\ ~routed /\ routed'
    /\ ~(hasSynapseContext(headers) /\ synapseContext # Undef)

\* config.Router read as a models section: background is its fast model
routerModels ==
    LET Router == Get(legacyConfig, "Router")
    IN  Obj([default |-> Get(Router, "default"), fast |-> Get(Router, "background"),
             think |-> Get(Router, "think"), longContext |-> Get(Router, "longContext")])

\* the slot of the models section an agent type maps to
slotOf(agentType) ==
    CASE agentType = Str("coding") -> "coder"
      [] agentType = Str("analysis") -> "tool"
      [] agentType = Str("reasoning") -> "think"
      [] OTHER -> "default"

\* the one ordered precedence: comma-separated request, long context, agent type,
\* fast/background name, thinking flag, default
precedence(requested, estimatedTokens, agentType, thinking, models) ==
    IF requested.t = "string" /\ requested.v \in NamesWithComma THEN requested
    ELSE IF /\ estimatedTokens.t = "number" /\ estimatedTokens.v > 60000
            /\ Truthy(Get(models, "longContext"))
    THEN Get(models, "longContext")
    ELSE IF Truthy(agentType)
    THEN OrElse(Get(models, slotOf(agentType)), Get(models, "default"))
    ELSE IF /\ requested.t = "string" /\ requested.v \in NamesOfHaiku
            /\ Truthy(Get(models, "fast"))
    THEN Get(models, "fast")
    ELSE IF Truthy(thinking) /\ Truthy(Get(models, "think"))
    THEN Get(models, "think")
    ELSE Get(models, "default")

\* C31: model selection follows one ordered precedence, first match wins: a
\* comma-separated requested model is passed through, then more than 60000
\* estimated tokens with models.longContext configured select it, then a present
\* agent type is mapped through the fixed table, then a fast/background model name
\* selects models.fast, then a thinking flag selects models.think, otherwise
\* models.default; whichever of routeBasedOnContext and getUseModel selects, the
\* model it selects is the one this precedence gives
C31_OnePrecedence ==
    [][/\ \A r \in Requests :
             selects(r) =>
                 req'[r].targetModel =
                     precedence(reqBody.model, req'[r].context.estimatedTokens,
                                req'[r].context.agentType, reqBody.thinking,
                                configuredModels)
       /\ routerSelects =>
             reqBody'.model =
                 precedence(reqBody.model, Num(reqBody.tokenCount), headers.agentType,
                            reqBody.thinking, routerModels)]_vars

\* C32: with agentType = coding and models.coder configured as X, the model
\* selected is X whatever the token estimate is
C32_CoderWhateverTokens ==
    \A r \in Requests :
        /\ selectedFor(r)
        /\ req[r].context.agentType = Str("coding")
        /\ Truthy(Get(configuredModels, "coder"))
        => req[r].targetModel = Get(configuredModels, "coder")

\* a coding request with an estimate above every threshold got the coder model
C32_Witness ==
    \E r \in Requests :
        /\ selectedFor(r)
        /\ req[r].context.agentType = Str("coding")
        /\ req[r].context.estimatedTokens = Num(60001)
        /\ Truthy(Get(configuredModels, "longContext"))
        /\ req[r].targetModel = Str("model-coder")

\* C33: when an agent type is present and the slot it maps to (coder, tool or
\* think) is not configured, the model selected is models.default
C33_UnconfiguredSlotGivesDefault ==
    \A r \in Requests :
        /\ selectedFor(r)
        /\ req[r].context.agentType \in {Str("coding"), Str("analysis"), Str("reasoning")}
        /\ ~Truthy(Get(configuredModels, slotOf(req[r].context.agentType)))
        => req[r].targetModel = Get(configuredModels, "default")

\* C34 as stated: with more than 60000 estimated tokens and no agent type, the
\* model selected is config.models.longContext
C34_LongContextAlways ==
    \A r \in Requests :
        /\ selectedFor(r)
        /\ ~Truthy(req[r].context.agentType)
        /\ req[r].context.estimatedTokens.t = "number"
        /\ req[r].context.estimatedTokens.v > 60000
        => req[r].targetModel = Get(configuredModels, "longContext")

\* C34: with more than 60000 estimated tokens, no agent type and a long-context
\* model configured, the model selected is that model: models.longContext for
\* routeBasedOnContext, and Router.longContext for getUseModel counting more than
\* 60000 tokens in a request whose model name holds no comma
C34_LongContextWhenConfigured ==
    [][/\ \A r \in Requests :
             /\ selects(r)
             /\ ~Truthy(req'[r].context.agentType)
             /\ req'[r].context.estimatedTokens.t = "number"
             /\ req'[r].context.estimatedTokens.v > 60000
             /\ Truthy(Get(configuredModels, "longContext"))
             => req'[r].targetModel = Get(configuredModels, "longContext")
       /\ /\ routerSelects
          /\ reqBody.tokenCount > 60000
          /\ reqBody.model.t = "string" /\ reqBody.model.v \notin NamesWithComma
          /\ Truthy(Get(routerModels, "longContext"))
          => reqBody'.model = Get(routerModels, "longContext")]_vars

\* a request with 60001 estimated tokens and no agent type got models.longContext
C34_Witness ==
    \E r \in Requests :
        /\ selectedFor(r)
        /\ ~Truthy(req[r].context.agentType)
        /\ req[r].context.estimatedTokens = Num(60001)
        /\ req[r].targetModel = Str("model-longContext")

\* C38: with no agent type, a token estimate of 500 selects the configured fast
\* model and a token estimate of 60000 selects the configured long-context model
C38_FastAt500LongAt60000 ==
    \A r \in Requests :
        selectedFor(r) /\ ~Truthy(req[r].context.agentType) =>
            /\ /\ req[r].context.estimatedTokens = Num(500)
               /\ Truthy(Get(configuredModels, "fast"))
               => req[r].targetModel = Get(configuredModels, "fast")
            /\ /\ req[r].context.estimatedTokens = Num(60000)
               /\ Truthy(Get(configuredModels, "longContext"))
               => req[r].targetModel = Get(configuredModels, "longContext")

\* a request with an estimate of 60000 tokens and no agent type got the configured
\* long-context model, which is not the default model
C38_Witness ==
    \E r \in Requests :
        /\ selectedFor(r)
        /\ ~Truthy(req[r].context.agentType)
        /\ req[r].context.estimatedTokens = Num(60000)
        /\ req[r].targetModel = Str("model-longContext")
        /\ Get(configuredModels, "default") = Str("model-default")

(***************************************************************************)
(* Dispatch targets                                                        *)
(***************************************************************************)
\* the dispatches the step starts
dispatched == {d \in fetches' \ fetches : d.kind = "dispatch"}

\* the dispatch goes to a provider that is configured with the target model of its
\* request and whose record in the health map is healthy
toHealthyCandidate(d) ==
    LET providers == Get(loadConfig(configFile), "providers")
    IN  /\ d.provider \in Keys(providers)
        /\ includesModel(providers.v[d.provider], req'[d.owner].targetModel)
        /\ d.provider \in DOMAIN healthStatus
        /\ healthStatus[d.provider].healthy
        /\ healthStatus' = healthStatus

\* C35 as stated: every dispatch goes to a provider whose model list contains the
\* target model and whose latest health record was healthy when it was selected,
\* and while no probe has completed every route call fails with the
\* no-healthy-provider error without a dispatch
C35_NoProbeNoHealthyError ==
    [][/\ \A d \in dispatched : toHealthyCandidate(d)
       /\ \A r \in Requests :
             selects(r) /\ DOMAIN healthStatus = {} =>
                 /\ req'[r].pc = "done"
                 /\ req'[r].result.error.msg = "No healthy providers available"
                 /\ dispatched = {}]_vars

\* C35: every dispatch goes to a provider whose model list contains the target
\* model and whose latest health record was healthy when it was selected; a
\* provider never probed is never dispatched to, so while no probe has completed
\* every route call fails without a dispatch: with the no-healthy-provider error
\* when maxAttempts is at least 1, with the error of the exhausted loop when it is 0
C35_OnlyHealthyCandidates ==
    [][/\ \A d \in dispatched : toHealthyCandidate(d)
       /\ \A r \in Requests :
             selects(r) /\ DOMAIN healthStatus = {} =>
                 /\ req'[r].pc = "done"
                 /\ ~req'[r].result.success
                 /\ req'[r].result.error.msg =
                        IF req'[r].maxRetries >= 1 THEN "No healthy providers available"
                        ELSE "All fallback attempts failed"
                 /\ dispatched = {}]_vars

\* a dispatch is in flight to one of two configured providers, the only one of
\* them that has the target model, while both are recorded healthy
C35_Witness ==
    \E d \in fetches :
        /\ d.kind = "dispatch"
        /\ \A p \in Keys(Get(loadConfig(configFile), "providers")) :
               IsHealthy(healthStatus, p)
        /\ \E p \in Keys(Get(loadConfig(configFile), "providers")) :
               ~includesModel(Get(loadConfig(configFile), "providers").v[p],
                              req[d.owner].targetModel)

(***************************************************************************)
(* Probe outcomes and the overall health view                              *)
(***************************************************************************)
\* C36: after a probe of provider P completes, P's record is healthy iff the
\* health request returned a success-class status; a probe that failed (timeout,
\* network error, status outside 2xx) leaves an unhealthy record that holds the
\* error; the probe overwrites P's record and leaves every other record as it was
C36_ProbeRecord ==
    [][\A p \in ProviderNames :
          probeEnded(p) =>
              /\ p \in DOMAIN healthStatus'
              /\ healthStatus'[p].healthy <=> healthStatus'[p].status \in 200..299
              /\ ~healthStatus'[p].healthy => healthStatus'[p].error # "none"
              /\ DOMAIN healthStatus' = DOMAIN healthStatus \cup {p}
              /\ \A q \in DOMAIN healthStatus \ {p} :
                     healthStatus'[q] = healthStatus[q]]_vars

\* the providers recorded healthy in the health map
recordedHealthy(hs) == {p \in DOMAIN hs : hs[p].healthy}

\* the view says healthy iff some record is healthy, and its score is the share of
\* the healthy records among all records, 0 when there is none
viewOf(view, hs) ==
    /\ view.healthy <=> recordedHealthy(hs) # {}
    /\ view.score = IF DOMAIN hs = {} THEN Quotient(0, 1)
                    ELSE Quotient(Cardinality(recordedHealthy(hs)), Cardinality(DOMAIN hs))
    /\ 0 <= view.score.n /\ view.score.n <= view.score.d

\* C37: in every reachable state the overall health view reports healthy iff at
\* least one provider record is healthy, and score = healthyCount / total over the
\* recorded providers (0 when there are no records), so 0 <= score <= 1; so does
\* the view each answer of GET /health carries; and the record of a provider is
\* never removed, so providers removed from the configuration keep counting
C37_OverallView ==
    /\ [](viewOf(getOverallHealth(healthStatus), healthStatus))
    /\ [][/\ (hc' # hc /\ hc'.pc = "idle" /\ hc'.status = 200) =>
                 viewOf(hc'.health, healthStatus')
          /\ DOMAIN healthStatus \subseteq DOMAIN healthStatus']_vars

\* a health check answered with a view that counts the record of a provider the
\* configuration no longer holds
C37_Witness ==
    /\ hc.pc = "idle" /\ hc.status = 200
    /\ hc.health = getOverallHealth(healthStatus)
    /\ hc.health.score.d = Cardinality(DOMAIN healthStatus)
    /\ hc.health.score.d = 2
    /\ Keys(Get(loadConfig(configFile), "providers")) = {"openrouter"}
    /\ recordedHealthy(healthStatus) = {"anthropic"}

(***************************************************************************)
(* No attempt allowed                                                      *)
(***************************************************************************)
\* C39: retryAttempts = 0 is a value validateConfig accepts, and with maxAttempts = 0
\* routeWithFallback issues no dispatch and fails, never returning a success,
\* whatever the health of the providers is
C39_ZeroAttempts ==
    Get(Get(loadConfig(configFile), "routing"), "retryAttempts") = Num(0) =>
        /\ validateConfig(loadConfig(configFile)).valid
        /\ \A r \in Requests :
               selectedFor(r) =>
                   /\ req[r].maxRetries = 0
                   /\ req[r].pc = "done"
                   /\ ~req[r].result.success
                   /\ req[r].result.status = 500
                   /\ req[r].trail = <<>>
                   /\ \A d \in fetches : ~(d.kind = "dispatch" /\ d.owner = r)

\* a request failed under retryAttempts = 0 while a provider of its target model
\* was recorded healthy
C39_Witness ==
    \E r \in Requests :
        /\ selectedFor(r) /\ req[r].maxRetries = 0
        /\ req[r].pc = "done"
        /\ req[r].result.error.msg = "All fallback attempts failed"
        /\ healthyProviders(healthStatus, req[r].availableProviders) # <<>>

(***************************************************************************)
(* Overlapping configuration saves                                         *)
(***************************************************************************)
\* the persisted configuration's value under a top-level key
persisted(file, k) == Get(loadConfig(file), k)

\* C40: two overlapping saveConfig calls with patches on disjoint top-level keys
\* both take effect: the write of a save leaves every top-level key its patch does
\* not name as the file held it, so it never undoes the update of the other save
C40_BothSavesTakeEffect ==
    [][\A s \in Savers :
          (saves[s].pc = "awaitLoad" /\ saves'[s].pc = "idle") =>
              \A k \in TopKeys \ Keys(saves[s].config) :
                  persisted(configFile', k) = persisted(configFile, k)]_vars

====
